---- MODULE Spec2Model ----
(***************************************************************************)
(* Multitrack recorder of roseratugo/podcast-recorder (desktop app):       *)
(* RecordingManager (recording/recorder.rs), TrackRecorder                 *)
(* (recording/track.rs) and StorageManager (recording/storage.rs).         *)
(*                                                                         *)
(* Strings are sequences of one-character strings, byte vectors are        *)
(* sequences of numbers, paths are sequences of components, Option<T> is   *)
(* a sequence of length 0 (None) or 1 (Some).                              *)
(*                                                                         *)
(* Every handler is an operator from the state (a record of the variables) *)
(* to the set of its outcomes [result, value, state]: what it returns and  *)
(* the state it leaves, one outcome for each way its I/O and the clock can *)
(* go.  The action of the handler takes one of the outcomes.               *)
(***************************************************************************)
EXTENDS Integers, Sequences, FiniteSets, TLC

\* ------------------------------------------------------------------ bounds
\* A run holds at most MaxEvents events of the kinds that make the state
\* grow: a tick of the clock, a track created by add_participant, an ingest
\* call that reaches a channel, a track file creation or a metadata write
\* that fails, a worker thread that panics.  Every other call and step is unbounded (a failed call, a
\* failed chunk write, pause, resume, stop, the workers).
MaxEvents == 3
\* The clock counts ticks; a second has TicksPerSecond ticks.
TicksPerSecond == 2
\* Capacity of a pipeline's channel.  The code's value is 1000 (track.rs:9);
\* the model keeps the name and scales the value down so that a full queue
\* is reached.
CHANNEL_BUFFER_SIZE == 1
\* Longest name given to sanitize_filename on its own.
MaxNameLen == 3

\* ------------------------------------------------------------------ inputs
Kinds == {"audio", "video"}

\* participant ids "p" and "p-1"
ParticipantIds == { <<"p">>, <<"p", "-", "1">> }
\* the (id, name) pairs add_participant is called with: ("p", "1-J D"),
\* ("p-1", "J D") and ("p", "J D")
Participants ==
    { << <<"p">>, <<"1", "-", "J", " ", "D">> >>,
      << <<"p", "-", "1">>, <<"J", " ", "D">> >>,
      << <<"p">>, <<"J", " ", "D">> >> }
\* room id "r1"
RoomIds == { <<"r", "1">> }
\* output root directory "out"
OutputDirs == { << <<"o", "u", "t">> >> }
\* chunk payloads (non-empty: commands.rs rejects empty chunks)
Chunks == { <<1>>, <<2, 3>> }

\* ------------------------------------------------------------------ Option
None == <<>>
Some(x) == <<x>>
IsSome(o) == o # <<>>
Unwrap(o) == o[1]

\* ------------------------------------------------------------------ strings
Lower == {"a","b","c","d","e","f","g","h","i","j","k","l","m",
          "n","o","p","q","r","s","t","u","v","w","x","y","z"}
Upper == {"A","B","C","D","E","F","G","H","I","J","K","L","M",
          "N","O","P","Q","R","S","T","U","V","W","X","Y","Z"}
Digits == {"0","1","2","3","4","5","6","7","8","9"}

\* faulty variant of sanitize_filename: the dot is kept too
sanitize_filename_KeepsDot(name) ==
    [i \in 1..Len(name) |->
        IF name[i] \in Lower \cup Upper \cup Digits \cup {"-", "_", "."}
        THEN name[i] ELSE "_"]

\* storage.rs sanitize_filename: keep [A-Za-z0-9_-], map the rest to '_'
sanitize_filename(name) ==
    [i \in 1..Len(name) |->
        IF name[i] \in Lower \cup Upper \cup Digits \cup {"-", "_"}
        THEN name[i] ELSE "_"]

DigitChar(d) ==
    CASE d = 0 -> "0" [] d = 1 -> "1" [] d = 2 -> "2" [] d = 3 -> "3"
      [] d = 4 -> "4" [] d = 5 -> "5" [] d = 6 -> "6" [] d = 7 -> "7"
      [] d = 8 -> "8" [] d = 9 -> "9"

TwoDigits(n) == << DigitChar((n \div 10) % 10), DigitChar(n % 10) >>

\* Utc::now().format("%Y-%m-%d_%H-%M-%S"): second resolution.  Tick 0 of the
\* clock is 1970-01-01T00:00:00Z and the clock stays within that day.
FormatTimestamp(t) ==
    LET s == t \div TicksPerSecond IN
    <<"1","9","7","0","-","0","1","-","0","1","_">>
        \o TwoDigits((s \div 3600) % 24) \o <<"-">>
        \o TwoDigits((s \div 60) % 60) \o <<"-">>
        \o TwoDigits(s % 60)

\* faulty variant of RecordingIdOf: the room id is left out
RecordingIdOf_NoRoom(room_id, t) ==
    <<"r","e","c","o","r","d","i","n","g","-">> \o FormatTimestamp(t)

\* format!("recording-{}-{}", room_id, timestamp)
RecordingIdOf(room_id, t) ==
    <<"r","e","c","o","r","d","i","n","g","-">> \o room_id \o <<"-">> \o FormatTimestamp(t)

KindName(kind) ==
    IF kind = "audio" THEN <<"a","u","d","i","o">> ELSE <<"v","i","d","e","o">>

\* format!("{}-{}-audio.webm", participant_id, sanitize_filename(participant_name))
TrackFileName(participant_id, participant_name, kind) ==
    participant_id \o <<"-">> \o sanitize_filename(participant_name) \o <<"-">>
        \o KindName(kind) \o <<".","w","e","b","m">>

MetadataFileName == <<"m","e","t","a","d","a","t","a",".","j","s","o","n">>

\* PathBuf::join for a relative single-component name
PathJoin(dir, name) == Append(dir, name)

\* ------------------------------------------------------------------ state
VARIABLES
    status,        \* RecordingState.status
    config,        \* RecordingState.config : Option<RecordingConfig>
    storage,       \* RecordingState.storage : Option<StorageManager>
    tracks,        \* RecordingState.tracks : participant id -> TrackRecorder
    metadata,      \* RecordingState.metadata : Option<RecordingMetadata>
    recording_id,  \* RecordingState.recording_id : Option<String>
    chan,          \* the bounded channel of each (participant, kind) pipeline
    thread,        \* the worker thread of each pipeline and the writer it owns
    stats,         \* TrackStats of each participant's TrackRecorder
    files,         \* the file system: path -> content
    dirs,          \* the file system: directories created
    now,           \* the wall clock, in ticks
    ingests,       \* ingest calls in progress (each holds the state read lock)
    stopping,      \* the stop_recording call in progress (holds the write lock)
    enqueued,      \* history: the chunks sent on each pipeline's channel, in order
    processed,     \* history: the chunks each worker took, in order, and whether
                   \* the write succeeded
    used,          \* history: the number of bounded events so far
    sanitize_arg,  \* the argument of a call of sanitize_filename on its own
    sanitize_ret   \* what that call returned : Option<String>

managerVars == << status, config, storage, tracks, metadata, recording_id, chan,
                  thread, stats, files, dirs, now, ingests, stopping, enqueued,
                  processed, used >>
vars == << managerVars, sanitize_arg, sanitize_ret >>

\* the state as a record, for the handlers
S == [status |-> status, config |-> config, storage |-> storage, tracks |-> tracks,
      metadata |-> metadata, recording_id |-> recording_id, chan |-> chan,
      thread |-> thread, stats |-> stats, files |-> files, dirs |-> dirs, now |-> now,
      ingests |-> ingests, stopping |-> stopping, enqueued |-> enqueued,
      processed |-> processed, used |-> used]

\* the step to state t
Apply(t) ==
    /\ status' = t.status
    /\ config' = t.config
    /\ storage' = t.storage
    /\ tracks' = t.tracks
    /\ metadata' = t.metadata
    /\ recording_id' = t.recording_id
    /\ chan' = t.chan
    /\ thread' = t.thread
    /\ stats' = t.stats
    /\ files' = t.files
    /\ dirs' = t.dirs
    /\ now' = t.now
    /\ ingests' = t.ingests
    /\ stopping' = t.stopping
    /\ enqueued' = t.enqueued
    /\ processed' = t.processed
    /\ used' = t.used
    /\ UNCHANGED << sanitize_arg, sanitize_ret >>

\* what a handler does on one path through it: result is "Ok", the name of the
\* RecordingError, or "Pending" when the call has not returned yet
Outcome(result, value, t) == [result |-> result, value |-> value, state |-> t]

\* the RecordingState part of a state
Session(s) == << s.status, s.config, s.storage, s.tracks, s.metadata, s.recording_id >>

\* RecordingManager::get_status / get_recording_id / get_metadata
get_status(s) == s.status
get_recording_id(s) == s.recording_id
get_metadata(s) == s.metadata

Idle == [tag |-> "Idle"]
Stopped == [tag |-> "Stopped"]
Recording(t) == [tag |-> "Recording", started_at |-> t]
Paused(t, p) == [tag |-> "Paused", started_at |-> t, paused_at |-> p]

EmptyMap == [x \in {} |-> x]
MapInsert(m, key, value) ==
    [q \in DOMAIN m \cup {key} |-> IF q = key THEN value ELSE m[q]]
MapRemove(m, key) == [q \in DOMAIN m \ {key} |-> m[q]]
Max(a, b) == IF a >= b THEN a ELSE b

NoThread == [state |-> "none"]
DefaultStats ==
    [audio_chunks_received |-> 0, video_chunks_received |-> 0,
     audio_bytes_written |-> 0, video_bytes_written |-> 0, errors |-> << >>]

\* RecordingManager::new
ManagerInit ==
    /\ status = Idle
    /\ config = None
    /\ storage = None
    /\ tracks = EmptyMap
    /\ metadata = None
    /\ recording_id = None
    /\ chan = [p \in ParticipantIds |-> [k \in Kinds |-> << >>]]
    /\ thread = [p \in ParticipantIds |-> [k \in Kinds |-> NoThread]]
    /\ stats = [p \in ParticipantIds |-> DefaultStats]
    /\ files = EmptyMap
    /\ dirs = {}
    /\ now = 0
    /\ ingests = {}
    /\ stopping = None
    /\ enqueued = [p \in ParticipantIds |-> [k \in Kinds |-> << >>]]
    /\ processed = [p \in ParticipantIds |-> [k \in Kinds |-> << >>]]
    /\ used = 0

Init ==
    /\ ManagerInit
    /\ sanitize_arg = << >>
    /\ sanitize_ret = None

\* faulty variant of WriteLockFree: a writer does not wait for the writer
WriteLockFree_NoWriter(s) == s.ingests = {}

\* parking_lot RwLock on RecordingState: state.write() / state.read()
WriteLockFree(s) == s.stopping = None /\ s.ingests = {}
ReadLockFree(s) == s.stopping = None

\* n more bounded events fit in the run
CanSpend(s, n) == s.used + n <= MaxEvents
\* the outcomes of a path that is taken only when cond holds
When(cond, outcomes) == IF cond THEN outcomes ELSE {}

\* ------------------------------------------------------------------ clock
\* Utc::now().  The variable now holds the last value read; the clock has
\* gone on by some ticks, each a bounded event, when it is read again.
\* Clock(s) is the set of states in which a handler that reads the clock can
\* find s.
Clock(s) ==
    { [s EXCEPT !.now = @ + d, !.used = @ + d] : d \in 0..(MaxEvents - s.used) }

\* ------------------------------------------------------------------ start
\* StorageManager::new: the id and the session directory
StorageManagerNew(base_dir, room_id, t) ==
    LET id == RecordingIdOf(room_id, t) IN
    [output_dir |-> PathJoin(base_dir, id), recording_id |-> id]

\* faulty variant of StartAllowed: a stopped manager starts again
StartAllowed_IdleOrStopped(st) == st.tag \in {"Idle", "Stopped"}

\* faulty variant of StartAllowed: only a running recording rejects a start
StartAllowed_NotRecording(st) == st.tag # "Recording"

\* the status start_recording requires
StartAllowed(st) == st.tag = "Idle"

\* faulty variant of StartRejection: a stopped manager answers with the error
\* of a missing recording
StartRejection_ByStatus(st) ==
    IF st.tag = "Stopped" THEN "NoActiveRecording" ELSE "AlreadyRecording"

\* the error start_recording returns when the status is not Idle
StartRejection(st) == "AlreadyRecording"

\* the metadata start_recording initializes
InitialMetadata(sm, room_id, t) ==
    [id |-> sm.recording_id,
     room_id |-> room_id,
     started_at |-> t,
     stopped_at |-> None,
     duration_seconds |-> 0,
     participants |-> EmptyMap,
     output_directory |-> sm.output_dir]

\* RecordingManager::start_recording
start_recording(s, room_id, base_dir) ==
    IF ~StartAllowed(s.status)
    THEN { Outcome(StartRejection(s.status), None, s) }
    ELSE \* fs::create_dir_all fails
         { Outcome("IoError", None, s) }
         \cup
         \* the clock is read for the id and for the metadata (in c1), then
         \* again for the status (in c2)
         UNION { { LET sm == StorageManagerNew(base_dir, room_id, c1.now) IN
                   Outcome("Ok", Some(sm.recording_id),
                       [c2 EXCEPT
                           !.dirs = @ \cup {sm.output_dir},
                           !.metadata = Some(InitialMetadata(sm, room_id, c1.now)),
                           !.status = Recording(c2.now),
                           !.config = Some([room_id |-> room_id, output_dir |-> base_dir]),
                           !.storage = Some(sm),
                           !.recording_id = Some(sm.recording_id)])
                   : c2 \in Clock(c1) } : c1 \in Clock(s) }

StartRecording(room_id, base_dir) ==
    /\ WriteLockFree(S)
    /\ \E o \in start_recording(S, room_id, base_dir) : Apply(o.state)

\* ------------------------------------------------------------------ pause / resume
\* faulty variant of PauseAllowed: a paused recording is paused again
PauseAllowed_AlsoPaused(st) == st.tag \in {"Recording", "Paused"}

\* the arm of the match in pause_recording that succeeds
PauseAllowed(st) == st.tag = "Recording"

\* RecordingManager::pause_recording
pause_recording(s) ==
    IF PauseAllowed(s.status)
    THEN { Outcome("Ok", None, [c EXCEPT !.status = Paused(s.status.started_at, c.now)])
           : c \in Clock(s) }
    ELSE { Outcome("NoActiveRecording", None, s) }

PauseRecording ==
    /\ WriteLockFree(S)
    /\ \E o \in pause_recording(S) : Apply(o.state)

\* the arm of the match in resume_recording that succeeds
ResumeAllowed(st) == st.tag = "Paused"

\* faulty variant of ResumedStatus: the recording restarts at the pause time
ResumedStatus_PauseTime(st) == Recording(st.paused_at)

\* the status resume_recording sets
ResumedStatus(st) == Recording(st.started_at)

\* RecordingManager::resume_recording
resume_recording(s) ==
    IF ResumeAllowed(s.status)
    THEN { Outcome("Ok", None, [s EXCEPT !.status = ResumedStatus(s.status)]) }
    ELSE { Outcome("NoActiveRecording", None, s) }

ResumeRecording ==
    /\ WriteLockFree(S)
    /\ \E o \in resume_recording(S) : Apply(o.state)

\* ------------------------------------------------------------------ files
\* File::create: creates the file or truncates it to length 0
FileCreate(fs, path) ==
    [q \in DOMAIN fs \cup {path} |-> IF q = path THEN << >> ELSE fs[q]]

\* write_all through a handle whose offset is pos: the bytes land at pos,
\* a gap between the end of the file and pos reads as zeros
WriteAt(content, pos, bytes) ==
    LET end == pos + Len(bytes) IN
    [i \in 1..Max(Len(content), end) |->
        IF i > pos /\ i <= end THEN bytes[i - pos]
        ELSE IF i <= Len(content) THEN content[i] ELSE 0]

FileWrite(fs, path, pos, bytes) ==
    [fs EXCEPT ![path] = WriteAt(fs[path], pos, bytes)]

\* StorageManager::create_audio_file / create_video_file: the path of the writer
TrackFilePath(sm, participant_id, participant_name, kind) ==
    PathJoin(sm.output_dir, TrackFileName(participant_id, participant_name, kind))

\* ------------------------------------------------------------------ add_participant
\* faulty variant of AddAllowed: a paused recording takes no participant
AddAllowed_RecordingOnly(st) == st.tag = "Recording"

\* the statuses add_participant accepts
AddAllowed(st) == st.tag \notin {"Idle", "Stopped"}

\* faulty variant of AlreadyAdded: the track map is not consulted
AlreadyAdded_Never(trks, participant_id) == FALSE

\* the participant is already in the track map
AlreadyAdded(trks, participant_id) == participant_id \in DOMAIN trks

\* faulty variant of TrackRecorderNew: the track has a sender and a thread of
\* both kinds, whatever was requested
TrackRecorderNew_BothKinds(participant_id, record_audio, record_video) ==
    [participant_id |-> participant_id,
     audio_sender |-> TRUE, video_sender |-> TRUE,
     audio_thread |-> TRUE, video_thread |-> TRUE]

\* TrackRecorder (the handles it holds)
TrackRecorderNew(participant_id, record_audio, record_video) ==
    [participant_id |-> participant_id,
     audio_sender |-> record_audio, video_sender |-> record_video,
     audio_thread |-> record_audio, video_thread |-> record_video]

\* faulty variant of HasSender: every track sends both kinds
HasSender_Always(track, kind) == TRUE

HasSender(track, kind) ==
    IF kind = "audio" THEN track.audio_sender ELSE track.video_sender
HasThread(track, kind) ==
    IF kind = "audio" THEN track.audio_thread ELSE track.video_thread

\* the thread TrackRecorder::new spawns for a kind, with the writer it owns
SpawnThread(path, wanted) ==
    IF wanted THEN [state |-> "running", path |-> path, pos |-> 0] ELSE NoThread

\* the metadata entry add_participant inserts
NewParticipantMetadata(participant_id, participant_name, t) ==
    [id |-> participant_id, name |-> participant_name,
     audio_file |-> None, video_file |-> None,
     joined_at |-> t, left_at |-> None]

\* metadata.participants.insert, when there is metadata
InsertParticipant(meta, participant_id, entry) ==
    IF IsSome(meta)
    THEN Some([Unwrap(meta) EXCEPT !.participants = MapInsert(@, participant_id, entry)])
    ELSE meta

\* RecordingManager::add_participant
add_participant(s, participant_id, participant_name, record_audio, record_video) ==
    IF ~AddAllowed(s.status)
    THEN { Outcome("NoActiveRecording", None, s) }
    ELSE IF AlreadyAdded(s.tracks, participant_id)
    THEN { Outcome("Ok", None, s) }
    ELSE IF s.config = None \/ s.storage = None
    THEN { Outcome("NoActiveRecording", None, s) }
    ELSE
    LET sm == Unwrap(s.storage)
        apath == TrackFilePath(sm, participant_id, participant_name, "audio")
        vpath == TrackFilePath(sm, participant_id, participant_name, "video")
        fs1 == IF record_audio THEN FileCreate(s.files, apath) ELSE s.files
        fs2 == IF record_video THEN FileCreate(fs1, vpath) ELSE fs1
        added(c) ==
            [c EXCEPT
                !.files = fs2,
                !.chan[participant_id] = [k \in Kinds |-> << >>],
                !.thread[participant_id] =
                    [k \in Kinds |->
                        IF k = "audio" THEN SpawnThread(apath, record_audio)
                        ELSE SpawnThread(vpath, record_video)],
                !.stats[participant_id] = DefaultStats,
                !.enqueued[participant_id] = [k \in Kinds |-> << >>],
                !.processed[participant_id] = [k \in Kinds |-> << >>],
                !.metadata = InsertParticipant(@, participant_id,
                                NewParticipantMetadata(participant_id, participant_name, c.now)),
                !.tracks = MapInsert(@, participant_id,
                                TrackRecorderNew(participant_id, record_audio, record_video))]
    IN
    \* File::create of the audio file fails
    When(record_audio /\ CanSpend(s, 1),
         { Outcome("IoError", None, [s EXCEPT !.used = @ + 1]) })
    \cup
    \* File::create of the video file fails; the audio file has been created
    When(record_video /\ CanSpend(s, 1),
         { Outcome("IoError", None, [s EXCEPT !.files = fs1, !.used = @ + 1]) })
    \cup
    \* the track is created (a bounded event); joined_at reads the clock
    When(CanSpend(s, 1),
         { Outcome("Ok", None, added(c)) : c \in Clock([s EXCEPT !.used = @ + 1]) })

AddParticipant(participant_id, participant_name, record_audio, record_video) ==
    /\ WriteLockFree(S)
    /\ \E o \in add_participant(S, participant_id, participant_name,
                                record_audio, record_video) : Apply(o.state)

\* ------------------------------------------------------------------ ingest
Chunk(bytes) == [type |-> "Chunk", bytes |-> bytes]
StopMsg == [type |-> "Stop"]

\* an ingest call between its lookup and its return
IngestCallAt(participant_id, kind, bytes, pc) ==
    [participant_id |-> participant_id, kind |-> kind, chunk |-> bytes, pc |-> pc]

\* the receiving side of a channel lives as long as its worker runs
ReceiverAlive(s, participant_id, kind) == s.thread[participant_id][kind].state = "running"

\* faulty variant of ChannelFull: the channel has no bound
ChannelFull_Never(queue) == FALSE

\* bounded::<TrackMessage>(CHANNEL_BUFFER_SIZE): the channel takes no more
ChannelFull(queue) == Len(queue) >= CHANNEL_BUFFER_SIZE

\* sender.send(chunk): waits while the channel is full (no outcome), fails
\* when the receiver is gone
add_chunk_send(s, call) ==
    LET p == call.participant_id
        k == call.kind IN
    IF ~ReceiverAlive(s, p, k)
    THEN { Outcome("TrackError", None, [s EXCEPT !.ingests = @ \ {call}]) }
    ELSE When(~ChannelFull(s.chan[p][k]),
              { Outcome("Pending", None,
                    [s EXCEPT !.chan[p][k] = Append(@, Chunk(call.chunk)),
                              !.enqueued[p][k] = Append(@, call.chunk),
                              !.ingests = (@ \ {call}) \cup {[call EXCEPT !.pc = "count"]}]) })

\* faulty variant of LookupTrack: an unknown id gets a track of both kinds
LookupTrack_Default(trks, participant_id) ==
    IF participant_id \in DOMAIN trks THEN Some(trks[participant_id])
    ELSE Some(TrackRecorderNew(participant_id, TRUE, TRUE))

\* a call with these arguments is in progress (the calls in progress at one
\* time are told apart by their arguments)
InProgress(s, participant_id, kind, bytes) ==
    \E c \in s.ingests :
        c.participant_id = participant_id /\ c.kind = kind /\ c.chunk = bytes

\* state.tracks.get(participant_id)
LookupTrack(trks, participant_id) ==
    IF participant_id \in DOMAIN trks THEN Some(trks[participant_id]) ELSE None

\* faulty variant of add_chunk: a chunk is refused while the recording is
\* paused
add_chunk_GatedByStatus(s, participant_id, kind, bytes) ==
    IF s.status.tag = "Paused"
    THEN { Outcome("NoActiveRecording", None, s) }
    ELSE IF participant_id \notin DOMAIN s.tracks
    THEN { Outcome("ParticipantNotFound", None, s) }
    ELSE { Outcome("Ok", None, s) }

\* RecordingManager::add_audio_chunk / add_video_chunk up to the update of
\* the stats: the read lock is taken and the track looked up; without a
\* sender of the kind TrackRecorder::add_*_chunk returns Ok at once, else the
\* chunk is sent, or the call waits in the send
add_chunk(s, participant_id, kind, bytes) ==
    IF LookupTrack(s.tracks, participant_id) = None
    THEN { Outcome("ParticipantNotFound", None, s) }
    ELSE IF ~HasSender(Unwrap(LookupTrack(s.tracks, participant_id)), kind)
    THEN { Outcome("Ok", None, s) }
    ELSE LET call == IngestCallAt(participant_id, kind, bytes, "send")
             called == [s EXCEPT !.ingests = @ \cup {call}, !.used = @ + 1]
             sent == add_chunk_send(called, call) IN
         When(~InProgress(s, participant_id, kind, bytes) /\ CanSpend(s, 1),
              IF sent = {} THEN { Outcome("Pending", None, called) } ELSE sent)

IngestCall(participant_id, kind, bytes) ==
    /\ ReadLockFree(S)
    /\ \E o \in add_chunk(S, participant_id, kind, bytes) : Apply(o.state)

\* a call that waited in the send goes on
IngestSend(call) ==
    /\ call.pc = "send"
    /\ \E o \in add_chunk_send(S, call) : Apply(o.state)

\* faulty variant of ReceivedAfter: the counter is left as it is
ReceivedAfter_Unchanged(st, kind) == st

\* the received counter of a kind, incremented
ReceivedAfter(st, kind) ==
    IF kind = "audio"
    THEN [st EXCEPT !.audio_chunks_received = @ + 1]
    ELSE [st EXCEPT !.video_chunks_received = @ + 1]

\* stats.lock(); received += 1; Ok(()), which releases the read lock
add_chunk_count(s, call) ==
    { Outcome("Ok", None,
        [s EXCEPT !.stats[call.participant_id] = ReceivedAfter(@, call.kind),
                  !.ingests = @ \ {call}]) }

IngestCount(call) ==
    /\ call.pc = "count"
    /\ \E o \in add_chunk_count(S, call) : Apply(o.state)

\* ------------------------------------------------------------------ worker
WrittenAfter(st, kind, n) ==
    IF kind = "audio"
    THEN [st EXCEPT !.audio_bytes_written = @ + n]
    ELSE [st EXCEPT !.video_bytes_written = @ + n]

\* faulty variant of WriteErrorAfter: the failed chunk is also counted as written
WriteErrorAfter_Counted(st, kind) ==
    [st EXCEPT !.errors = Append(@,
                   IF kind = "audio" THEN "Audio write error" ELSE "Video write error"),
               !.audio_bytes_written = @ + (IF kind = "audio" THEN 1 ELSE 0),
               !.video_bytes_written = @ + (IF kind = "video" THEN 1 ELSE 0)]

\* stats.errors.push(format!("Audio write error: {}", e))
WriteErrorAfter(st, kind) ==
    [st EXCEPT !.errors = Append(@,
        IF kind = "audio" THEN "Audio write error" ELSE "Video write error")]

\* a chunk the worker took and the result of writer.write_chunk
Processed(bytes, ok) == [bytes |-> bytes, written |-> ok]

\* receiver.recv(): the message the worker takes, and what stays queued
NextMessage(queue) == Head(queue)
RestMessages(queue) == Tail(queue)

\* faulty variant of recording_loop: the loop ends on the first message,
\* whatever it is
recording_loop_EndsOnAny(s, p, k, msg) ==
    { [s EXCEPT !.thread[p][k] = [state |-> "done", path |-> s.thread[p][k].path]] }

\* TrackRecorder::audio_recording_loop / video_recording_loop: one iteration
\* on the message msg, as the set of states it can leave
recording_loop(s, p, k, msg) ==
    LET w == s.thread[p][k] IN
    IF msg.type = "Stop"
    THEN \* break; writer.finalize() returns the path
         { [s EXCEPT !.thread[p][k] = [state |-> "done", path |-> w.path]] }
    ELSE \* writer.write_chunk succeeds
         { [s EXCEPT !.files = FileWrite(@, w.path, w.pos, msg.bytes),
                     !.thread[p][k].pos = @ + Len(msg.bytes),
                     !.stats[p] = WrittenAfter(@, k, Len(msg.bytes)),
                     !.processed[p][k] = Append(@, Processed(msg.bytes, TRUE))] }
         \cup
         \* writer.write_chunk fails: the error is recorded, the loop goes on
         { [s EXCEPT !.stats[p] = WriteErrorAfter(@, k),
                     !.processed[p][k] = Append(@, Processed(msg.bytes, FALSE))] }

WorkerStep(p, k) ==
    /\ thread[p][k].state = "running"
    /\ chan[p][k] # << >>
    /\ \E t \in recording_loop([S EXCEPT !.chan[p][k] = RestMessages(@)], p, k,
                               NextMessage(chan[p][k])) : Apply(t)

\* The thread of a pipeline panics (the Err(_) that handle.join() reports in
\* TrackRecorder::stop): the thread ends without a result, its receiver and
\* the messages still queued are dropped, its writer is closed.  A panic is
\* a bounded event.
worker_panic(s, p, k) ==
    [s EXCEPT !.thread[p][k] = [state |-> "panicked"],
              !.chan[p][k] = << >>,
              !.used = @ + 1]

WorkerPanic(p, k) ==
    /\ thread[p][k].state = "running"
    /\ CanSpend(S, 1)
    /\ Apply(worker_panic(S, p, k))

\* ------------------------------------------------------------------ stop
\* the statuses stop_recording accepts
StopAllowed(st) == st.tag \notin {"Idle", "Stopped"}

\* (stopped_at - started_at).num_seconds().max(0)
DurationSeconds(started_at, stopped_at) ==
    IF stopped_at - started_at < 0 THEN 0
    ELSE (stopped_at - started_at) \div TicksPerSecond

\* started_at as stop_recording reads it from the status
StatusStartedAt(st, t) ==
    IF st.tag \in {"Recording", "Paused"} THEN st.started_at ELSE t

\* faulty variant of stop_recording: the tracks are stopped but stay in the
\* state
stop_recording_KeepsTracks(s) ==
    IF s.status.tag \in {"Idle", "Stopped"}
    THEN { Outcome("NoActiveRecording", None, s) }
    ELSE { Outcome("Pending", None,
            [c EXCEPT !.stopping =
                        Some([stopped_at |-> c.now,
                              duration |-> 0,
                              todo |-> s.tracks,
                              pc |-> "next",
                              track |-> None,
                              audio_file |-> None,
                              results |-> {}])])
           : c \in Clock(s) }

\* RecordingManager::stop_recording up to the loop over the tracks: the
\* write lock is taken, the status checked, the clock read, the tracks taken
\* out of the state
stop_recording(s) ==
    IF ~StopAllowed(s.status)
    THEN { Outcome("NoActiveRecording", None, s) }
    ELSE { Outcome("Pending", None,
            [c EXCEPT !.stopping =
                        Some([stopped_at |-> c.now,
                              duration |-> DurationSeconds(StatusStartedAt(s.status, c.now), c.now),
                              todo |-> s.tracks,
                              pc |-> "next",
                              track |-> None,
                              audio_file |-> None,
                              results |-> {}]),
                      !.tracks = EmptyMap])
           : c \in Clock(s) }

\* for (participant_id, track) in tracks: the next track, in the map's order
stop_next_track(s) ==
    LET st == Unwrap(s.stopping) IN
    { Outcome("Pending", None,
        [s EXCEPT !.stopping = Some([st EXCEPT !.todo = MapRemove(@, p),
                                               !.track = Some(st.todo[p]),
                                               !.audio_file = None,
                                               !.pc = "send_audio"])])
      : p \in DOMAIN st.todo }

AfterSend(kind) == IF kind = "audio" THEN "send_video" ELSE "join_audio"
AfterJoin(kind) == IF kind = "audio" THEN "join_video" ELSE "next"

TakeSender(track, kind) ==
    IF kind = "audio" THEN [track EXCEPT !.audio_sender = FALSE]
    ELSE [track EXCEPT !.video_sender = FALSE]
TakeThread(track, kind) ==
    IF kind = "audio" THEN [track EXCEPT !.audio_thread = FALSE]
    ELSE [track EXCEPT !.video_thread = FALSE]

\* faulty variant of track_stop_send: the sender is taken and no Stop is sent
track_stop_send_NoStop(s, kind) ==
    LET st == Unwrap(s.stopping)
        track == Unwrap(st.track) IN
    { Outcome("Pending", None,
        [s EXCEPT !.stopping = Some([st EXCEPT !.track = Some(TakeSender(track, kind)),
                                               !.pc = AfterSend(kind)])]) }

\* TrackRecorder::stop: sender.take(), send(Stop) with the result ignored.
\* The send waits while the channel is full (no outcome).
track_stop_send(s, kind) ==
    LET st == Unwrap(s.stopping)
        track == Unwrap(st.track)
        p == track.participant_id
        sends == HasSender(track, kind) /\ ReceiverAlive(s, p, kind) IN
    When(sends => ~ChannelFull(s.chan[p][kind]),
         { Outcome("Pending", None,
             [s EXCEPT
                 !.chan[p][kind] = IF sends THEN Append(@, StopMsg) ELSE @,
                 !.stopping = Some([st EXCEPT !.track = Some(TakeSender(track, kind)),
                                              !.pc = AfterSend(kind)])]) })

\* faulty variant of TrackResult: the two files are exchanged
TrackResult_Swapped(participant_id, audio_file, video_file, st) ==
    [participant_id |-> participant_id, audio_file |-> video_file,
     video_file |-> audio_file, stats |-> st]

\* TrackRecordingResult
TrackResult(participant_id, audio_file, video_file, st) ==
    [participant_id |-> participant_id, audio_file |-> audio_file,
     video_file |-> video_file, stats |-> st]

\* handle.join() returns Err: the thread has panicked
JoinFailed(s, track, kind) ==
    HasThread(track, kind) /\ s.thread[track.participant_id][kind].state = "panicked"

\* faulty variant of track_stop_join: after a panicked audio thread the video
\* thread is joined all the same and its path collected
track_stop_join_KeepsGoing(s, kind) ==
    LET st == Unwrap(s.stopping)
        track == Unwrap(st.track)
        p == track.participant_id
        failed == HasThread(track, kind) /\ s.thread[p][kind].state = "panicked"
        joined == IF HasThread(track, kind) /\ ~failed
                  THEN Some(s.thread[p][kind].path) ELSE None
    IN
    When(HasThread(track, kind) => s.thread[p][kind].state \in {"done", "panicked"},
         { Outcome("Pending", None,
             [s EXCEPT !.stopping = Some(
                IF kind = "audio"
                THEN [st EXCEPT !.track = Some(TakeThread(track, kind)),
                                !.audio_file = joined,
                                !.pc = AfterJoin(kind)]
                ELSE IF failed
                THEN [st EXCEPT !.track = None,
                                !.audio_file = None,
                                !.pc = "next"]
                ELSE [st EXCEPT !.track = None,
                                !.audio_file = None,
                                !.results = @ \cup
                                    {TrackResult(p, st.audio_file, joined, s.stats[p])},
                                !.pc = AfterJoin(kind)])]) })

\* TrackRecorder::stop: handle.join() of the kind's thread, which waits until
\* the thread has ended (no outcome before).  When the thread has panicked
\* stop returns TrackError at once, which stop_recording logs: the track is
\* dropped with no result and a thread not joined yet is left to itself.
\* After the video join the result is pushed on track_results.
track_stop_join(s, kind) ==
    LET st == Unwrap(s.stopping)
        track == Unwrap(st.track)
        p == track.participant_id
        joined == IF HasThread(track, kind) THEN Some(s.thread[p][kind].path) ELSE None
    IN
    When(HasThread(track, kind) => s.thread[p][kind].state \in {"done", "panicked"},
         { Outcome("Pending", None,
             [s EXCEPT !.stopping = Some(
                IF JoinFailed(s, track, kind)
                THEN [st EXCEPT !.track = None,
                                !.audio_file = None,
                                !.pc = "next"]
                ELSE IF kind = "audio"
                THEN [st EXCEPT !.track = Some(TakeThread(track, kind)),
                                !.audio_file = joined,
                                !.pc = AfterJoin(kind)]
                ELSE [st EXCEPT !.track = None,
                                !.audio_file = None,
                                !.results = @ \cup
                                    {TrackResult(p, st.audio_file, joined, s.stats[p])},
                                !.pc = AfterJoin(kind)])]) })

\* faulty variant of MergeResults: the leave timestamp is not set
MergeResults_NoLeftAt(participants, results, stopped_at) ==
    [p \in DOMAIN participants |->
        IF \E r \in results : r.participant_id = p
        THEN LET r == CHOOSE r \in results : r.participant_id = p IN
             [participants[p] EXCEPT !.audio_file = r.audio_file,
                                     !.video_file = r.video_file]
        ELSE participants[p]]

\* the merge of the track results into the participants of the metadata
MergeResults(participants, results, stopped_at) ==
    [p \in DOMAIN participants |->
        IF \E r \in results : r.participant_id = p
        THEN LET r == CHOOSE r \in results : r.participant_id = p IN
             [participants[p] EXCEPT !.audio_file = r.audio_file,
                                     !.video_file = r.video_file,
                                     !.left_at = Some(stopped_at)]
        ELSE participants[p]]

\* the metadata stop_recording returns
FinalMetadata(meta, st) ==
    [meta EXCEPT !.stopped_at = Some(st.stopped_at),
                 !.duration_seconds = st.duration,
                 !.participants = MergeResults(@, st.results, st.stopped_at)]

\* faulty variant of JsonOption: every optional value is written as null
JsonOption_Null(o) == <<"null">>

\* serde_json of an Option: null, or the value
JsonOption(o) == IF o = None THEN <<"null">> ELSE <<"value", Unwrap(o)>>

\* serde of DateTime<Utc>: the RFC 3339 text, seconds and fraction of a second
JsonTime(t) == [secs |-> t \div TicksPerSecond, frac |-> t % TicksPerSecond]

RECURSIVE JoinComponents(_)
JoinComponents(path) ==
    IF Len(path) = 1 THEN Head(path)
    ELSE Head(path) \o <<"/">> \o JoinComponents(Tail(path))

\* serde of PathBuf: the path as one string, components separated by '/'
JsonPath(path) == JoinComponents(path)

\* Option::map
OptionMapTime(o) == IF o = None THEN None ELSE Some(JsonTime(Unwrap(o)))
OptionMapPath(o) == IF o = None THEN None ELSE Some(JsonPath(Unwrap(o)))

\* serde_json::to_string_pretty(metadata)
ToJson(meta) ==
    [id |-> meta.id, room_id |-> meta.room_id,
     started_at |-> JsonTime(meta.started_at),
     stopped_at |-> JsonOption(OptionMapTime(meta.stopped_at)),
     duration_seconds |-> meta.duration_seconds,
     participants |-> [p \in DOMAIN meta.participants |->
        LET m == meta.participants[p] IN
        [id |-> m.id, name |-> m.name,
         audio_file |-> JsonOption(OptionMapPath(m.audio_file)),
         video_file |-> JsonOption(OptionMapPath(m.video_file)),
         joined_at |-> JsonTime(m.joined_at),
         left_at |-> JsonOption(OptionMapTime(m.left_at))]],
     output_directory |-> JsonPath(meta.output_directory)]

\* Deserialize of an Option, of DateTime<Utc> and of PathBuf
ParseOption(j) == IF Len(j) = 1 THEN None ELSE Some(j[2])
ParseTime(j) == j.secs * TicksPerSecond + j.frac

RECURSIVE SplitComponents(_, _, _)
\* the components of the text str, given those found (done) and the one
\* being read (cur)
SplitComponents(str, done, cur) ==
    IF str = << >> THEN Append(done, cur)
    ELSE IF Head(str) = "/" THEN SplitComponents(Tail(str), Append(done, cur), << >>)
    ELSE SplitComponents(Tail(str), done, Append(cur, Head(str)))
ParsePath(str) == SplitComponents(str, << >>, << >>)

ParseOptionTime(j) ==
    IF ParseOption(j) = None THEN None ELSE Some(ParseTime(Unwrap(ParseOption(j))))
ParseOptionPath(j) ==
    IF ParseOption(j) = None THEN None ELSE Some(ParsePath(Unwrap(ParseOption(j))))

\* serde_json::from_str::<RecordingMetadata>
FromJson(json) ==
    [id |-> json.id, room_id |-> json.room_id,
     started_at |-> ParseTime(json.started_at),
     stopped_at |-> ParseOptionTime(json.stopped_at),
     duration_seconds |-> json.duration_seconds,
     participants |-> [p \in DOMAIN json.participants |->
        LET m == json.participants[p] IN
        [id |-> m.id, name |-> m.name,
         audio_file |-> ParseOptionPath(m.audio_file),
         video_file |-> ParseOptionPath(m.video_file),
         joined_at |-> ParseTime(m.joined_at),
         left_at |-> ParseOptionTime(m.left_at)]],
     output_directory |-> ParsePath(json.output_directory)]

\* StorageManager::save_metadata: the file system after it
SaveMetadata(fs, sm, meta) ==
    MapInsert(fs, PathJoin(sm.output_dir, MetadataFileName), << ToJson(meta) >>)

\* faulty variant of StoppedState: the config is kept
StoppedState_KeepsConfig(s) == [s EXCEPT !.status = Stopped, !.storage = None]

\* faulty variant of StoppedState: the manager goes back to Idle
StoppedState_BackToIdle(s) == [s EXCEPT !.status = Idle, !.config = None, !.storage = None]

\* faulty variant of StoppedState: the recording id is cleared as well
StoppedState_ClearsId(s) ==
    [s EXCEPT !.status = Stopped, !.config = None, !.storage = None,
              !.recording_id = None]

\* the state stop_recording leaves when it succeeds
StoppedState(s) == [s EXCEPT !.status = Stopped, !.config = None, !.storage = None]

\* RecordingManager::stop_recording after the loop: the metadata is taken,
\* completed and saved, the status set; the write lock is released
stop_recording_finish(s) ==
    LET st == Unwrap(s.stopping)
        released == [s EXCEPT !.stopping = None] IN
    IF s.metadata = None
    THEN \* metadata.take().ok_or(NoActiveRecording)?
         { Outcome("NoActiveRecording", None, released) }
    ELSE LET final == FinalMetadata(Unwrap(s.metadata), st)
             taken == [released EXCEPT !.metadata = None] IN
         IF s.storage = None
         THEN { Outcome("Ok", Some(final), StoppedState(taken)) }
         ELSE \* save_metadata fails: the metadata has been taken
              When(CanSpend(s, 1),
                   { Outcome("IoError", None, [taken EXCEPT !.used = @ + 1]) })
              \cup
              { Outcome("Ok", Some(final),
                    StoppedState([taken EXCEPT
                        !.files = SaveMetadata(@, Unwrap(s.storage), final)])) }

\* one step of the thread that runs stop_recording, as outcomes: none when it
\* waits (in a send on a full channel, in a join of a running thread)
stop_step(s) ==
    LET st == Unwrap(s.stopping) IN
    CASE st.pc = "next" ->
            IF DOMAIN st.todo = {} THEN stop_recording_finish(s) ELSE stop_next_track(s)
      [] st.pc = "send_audio" -> track_stop_send(s, "audio")
      [] st.pc = "send_video" -> track_stop_send(s, "video")
      [] st.pc = "join_audio" -> track_stop_join(s, "audio")
      [] st.pc = "join_video" -> track_stop_join(s, "video")

\* the thread runs on from outcome o until it returns or waits
RECURSIVE RunStop(_)
RunStop(o) ==
    IF o.result # "Pending" THEN {o}
    ELSE LET next == stop_step(o.state) IN
         IF next = {} THEN {o} ELSE UNION { RunStop(n) : n \in next }

\* stop_recording from its call to its return or to the first wait
stop_recording_call(s) == UNION { RunStop(b) : b \in stop_recording(s) }

\* stop_recording from a wait to its return or to the next wait
stop_recording_resume(s) ==
    IF stop_step(s) = {} THEN {} ELSE RunStop(Outcome("Pending", None, s))

StopCall ==
    /\ WriteLockFree(S)
    /\ \E o \in stop_recording_call(S) : Apply(o.state)

StopResume ==
    /\ IsSome(stopping)
    /\ \E o \in stop_recording_resume(S) : Apply(o.state)

\* ------------------------------------------------------------------ specification
Next ==
    \/ \E r \in RoomIds, d \in OutputDirs : StartRecording(r, d)
    \/ \E pn \in Participants, a \in BOOLEAN, v \in BOOLEAN :
         AddParticipant(pn[1], pn[2], a, v)
    \/ \E p \in ParticipantIds, k \in Kinds, c \in Chunks : IngestCall(p, k, c)
    \/ \E call \in ingests : IngestSend(call)
    \/ \E call \in ingests : IngestCount(call)
    \/ \E p \in ParticipantIds, k \in Kinds : WorkerStep(p, k)
    \/ \E p \in ParticipantIds, k \in Kinds : WorkerPanic(p, k)
    \/ PauseRecording
    \/ ResumeRecording
    \/ StopCall
    \/ StopResume

Spec == Init /\ [][Next]_vars

\* Fair scheduling of the threads: a worker thread that has a message to
\* take takes it, the thread in stop_recording goes on when its send or join
\* can, a thread in an ingest call goes on when its send can and when it has
\* sent.  Nothing makes a caller call.
LiveSpec ==
    /\ Init /\ [][Next]_vars
    /\ \A p \in ParticipantIds, k \in Kinds : WF_vars(WorkerStep(p, k))
    /\ WF_vars(StopResume)
    /\ WF_vars(\E call \in ingests : IngestSend(call))
    /\ WF_vars(\E call \in ingests : IngestCount(call))

\* ------------------------------------------------------ sanitize_filename
\* Characters a name is drawn from: letters, a digit, the two punctuation
\* marks that are kept, and characters that are not (a space, a dot, '@', a
\* slash, and "U+00E9" for one character outside ASCII).
NameChars == {"a", "Z", "7", "-", "_", " ", ".", "@", "/", "U+00E9"}

RECURSIVE StringsUpTo(_)
StringsUpTo(n) ==
    IF n = 0 THEN { << >> }
    ELSE StringsUpTo(n - 1)
         \cup { Append(str, c) : str \in { t \in StringsUpTo(n - 1) : Len(t) = n - 1 },
                                 c \in NameChars }

Names == StringsUpTo(MaxNameLen)

\* a call of sanitize_filename(sanitize_arg) on its own
SanitizeCall ==
    /\ sanitize_ret = None
    /\ sanitize_ret' = Some(sanitize_filename(sanitize_arg))
    /\ UNCHANGED << managerVars, sanitize_arg >>

SanitizeInit ==
    /\ ManagerInit
    /\ sanitize_arg \in Names
    /\ sanitize_ret = None

SanitizeNext == SanitizeCall

SanitizeSpec == SanitizeInit /\ [][SanitizeNext]_vars

\* ------------------------------------------------------------------ claims
\* the calls of stop_recording that can return in the current state, each with
\* what it returns and the state it leaves
StopReturns ==
    { o \in (IF IsSome(stopping) THEN stop_recording_resume(S)
             ELSE IF WriteLockFree(S) THEN stop_recording_call(S) ELSE {})
        : o.result # "Pending" }

RECURSIVE Concat(_)
Concat(chunks) ==
    IF chunks = << >> THEN << >> ELSE Head(chunks) \o Concat(Tail(chunks))

\* the file of kind k that the returned metadata names for participant entry m
FileOf(m, k) == IF k = "audio" THEN m.audio_file ELSE m.video_file

\* C1: when stop_recording returns Ok and no file write has failed, every
\* track file named in the returned metadata holds exactly the concatenation
\* of the chunks enqueued on that pipeline, in enqueue order.
C1_TrackFileIsConcatenation ==
    \A o \in StopReturns :
        (o.result = "Ok" /\ \A q \in ParticipantIds : o.state.stats[q].errors = << >>)
        => LET meta == Unwrap(o.value) IN
           \A p \in DOMAIN meta.participants, k \in Kinds :
               IsSome(FileOf(meta.participants[p], k))
               => o.state.files[Unwrap(FileOf(meta.participants[p], k))]
                      = Concat(o.state.enqueued[p][k])

\* C2: stop_recording fails with NoActiveRecording whenever the status is
\* Idle or Stopped, and every stop_recording that returns Ok leaves the status
\* Stopped, the config absent and the storage absent.
C2_StopOutcome ==
    /\ (WriteLockFree(S) /\ status.tag \in {"Idle", "Stopped"})
       => \A o \in stop_recording_call(S) : o.result = "NoActiveRecording"
    /\ \A o \in StopReturns :
           o.result = "Ok"
           => /\ get_status(o.state) = Stopped
              /\ o.state.config = None
              /\ o.state.storage = None

\* a stop that has waited for a worker is about to return Ok
C2_Witness ==
    /\ IsSome(stopping)
    /\ \E o \in StopReturns : o.result = "Ok" /\ o.state.status = Stopped

\* C3: start_recording fails with AlreadyRecording whenever the status is not
\* Idle.
C3_StartRejected ==
    (WriteLockFree(S) /\ status.tag # "Idle")
    => \A r \in RoomIds, d \in OutputDirs :
           \A o \in start_recording(S, r, d) : o.result = "AlreadyRecording"

\* start_recording is called on a stopped manager and rejected
C3_Witness ==
    /\ WriteLockFree(S)
    /\ status.tag = "Stopped"
    /\ \E r \in RoomIds, d \in OutputDirs :
           \E o \in start_recording(S, r, d) : o.result = "AlreadyRecording"

\* "YYYY-MM-DD_HH-MM-SS"
IsTimestamp(ts) ==
    /\ Len(ts) = 19
    /\ \A i \in 1..19 :
           IF i \in {5, 8, 14, 17} THEN ts[i] = "-"
           ELSE IF i = 11 THEN ts[i] = "_"
           ELSE ts[i] \in Digits

\* "recording-{room_id}-{timestamp}"
HasIdForm(id, room_id) ==
    LET n == Len(room_id) IN
    /\ Len(id) = 10 + n + 1 + 19
    /\ SubSeq(id, 1, 10) = <<"r","e","c","o","r","d","i","n","g","-">>
    /\ SubSeq(id, 11, 10 + n) = room_id
    /\ id[11 + n] = "-"
    /\ IsTimestamp(SubSeq(id, 12 + n, Len(id)))

\* C4: start_recording from Idle is never rejected for the status, and when
\* it returns Ok (the session directory was created) the returned id has the
\* form recording-{roomId}-{timestamp}, the status is Recording, the metadata
\* has that id and no participants, and get_recording_id returns that id.
C4_StartFromIdle ==
    (WriteLockFree(S) /\ status.tag = "Idle")
    => \A r \in RoomIds, d \in OutputDirs :
         /\ \E o \in start_recording(S, r, d) : o.result = "Ok"
         /\ \A o \in start_recording(S, r, d) :
              /\ o.result # "AlreadyRecording"
              /\ o.result = "Ok"
                 => /\ IsSome(o.value)
                    /\ HasIdForm(Unwrap(o.value), r)
                    /\ get_status(o.state).tag = "Recording"
                    /\ IsSome(get_metadata(o.state))
                    /\ Unwrap(get_metadata(o.state)).id = Unwrap(o.value)
                    /\ DOMAIN Unwrap(get_metadata(o.state)).participants = {}
                    /\ get_recording_id(o.state) = o.value
                    /\ Unwrap(o.state.storage).output_dir \in o.state.dirs

\* a recording has just been started
C4_Witness ==
    /\ status.tag = "Recording"
    /\ IsSome(metadata)
    /\ DOMAIN Unwrap(metadata).participants = {}
    /\ recording_id = Some(Unwrap(metadata).id)
    /\ \E r \in RoomIds : HasIdForm(Unwrap(recording_id), r)

\* C5: add_participant with an id that is already in the track map returns
\* Ok and leaves the whole state as it was (track map, channels, threads,
\* files, metadata), whatever name and flags the call passes.
C5_ReAddChangesNothing ==
    WriteLockFree(S)
    => \A pn \in Participants, a \in BOOLEAN, v \in BOOLEAN :
           pn[1] \in DOMAIN tracks
           => add_participant(S, pn[1], pn[2], a, v) = { Outcome("Ok", None, S) }

\* participant "p" was added as "1-J D" with audio only and has a chunk in
\* its file; it can be added again as "J D" with video
C5_Witness ==
    /\ WriteLockFree(S)
    /\ <<"p">> \in DOMAIN tracks
    /\ IsSome(metadata)
    /\ Unwrap(metadata).participants[<<"p">>].name = <<"1", "-", "J", " ", "D">>
    /\ thread[<<"p">>]["video"].state = "none"
    /\ stats[<<"p">>].audio_bytes_written > 0
    /\ Outcome("Ok", None, S) \in add_participant(S, <<"p">>, <<"J", " ", "D">>, FALSE, TRUE)

\* C6: add_participant returns Ok only when the status is Recording or
\* Paused; in Idle and in Stopped it returns NoActiveRecording and changes
\* nothing; in Recording and in Paused it never returns NoActiveRecording.
C6_AddNeedsActiveRecording ==
    WriteLockFree(S)
    => \A pn \in Participants, a \in BOOLEAN, v \in BOOLEAN :
         \A o \in add_participant(S, pn[1], pn[2], a, v) :
           /\ o.result = "Ok" => status.tag \in {"Recording", "Paused"}
           /\ status.tag \in {"Idle", "Stopped"}
              => o.result = "NoActiveRecording" /\ o.state = S
           /\ status.tag \in {"Recording", "Paused"} => o.result # "NoActiveRecording"

\* add_participant is called on a stopped manager that has written files
C6_Witness ==
    /\ WriteLockFree(S)
    /\ status.tag = "Stopped"
    /\ DOMAIN files # {}
    /\ \E pn \in Participants :
           Outcome("NoActiveRecording", None, S)
               \in add_participant(S, pn[1], pn[2], TRUE, TRUE)

\* C7: pause_recording returns Ok exactly when the status is Recording, and
\* then the status is Paused; resume_recording returns Ok exactly when the
\* status is Paused, and then the status is Recording; otherwise each returns
\* NoActiveRecording and leaves the status as it was.
C7_PauseResume ==
    WriteLockFree(S)
    => /\ \A o \in pause_recording(S) :
            IF status.tag = "Recording"
            THEN o.result = "Ok" /\ get_status(o.state).tag = "Paused"
            ELSE o.result = "NoActiveRecording" /\ get_status(o.state) = status
       /\ \A o \in resume_recording(S) :
            IF status.tag = "Paused"
            THEN o.result = "Ok" /\ get_status(o.state).tag = "Recording"
            ELSE o.result = "NoActiveRecording" /\ get_status(o.state) = status

\* a paused recording: pause is rejected, resume succeeds
C7_Witness ==
    /\ WriteLockFree(S)
    /\ status.tag = "Paused"
    /\ \E o \in pause_recording(S) : o.result = "NoActiveRecording"
    /\ \E o \in resume_recording(S) : o.result = "Ok"

\* C8: add_audio_chunk and add_video_chunk for an id that is not in the track
\* map return ParticipantNotFound in every status and leave the whole state
\* as it was (nothing enqueued, nothing written).
C8_IngestUnknownParticipant ==
    ReadLockFree(S)
    => \A p \in ParticipantIds \ DOMAIN tracks, k \in Kinds, c \in Chunks :
           add_chunk(S, p, k, c) = { Outcome("ParticipantNotFound", None, S) }

\* a recording with a pipeline for "p" and none for "p-1"
C8_Witness ==
    /\ ReadLockFree(S)
    /\ status.tag = "Recording"
    /\ DOMAIN tracks = { <<"p">> }
    /\ \E o \in add_chunk(S, <<"p", "-", "1">>, "audio", <<1>>) :
           o.result = "ParticipantNotFound"

\* C9: a chunk of a kind the participant has no pipeline for is accepted with
\* Ok and changes nothing: no file, no message, no counter of either kind.
C9_IngestMissingKind ==
    ReadLockFree(S)
    => \A p \in DOMAIN tracks, k \in Kinds, c \in Chunks :
           thread[p][k].state = "none"
           => add_chunk(S, p, k, c) = { Outcome("Ok", None, S) }

\* an audio-only participant with a chunk waiting in the audio queue is sent
\* a video chunk
C9_Witness ==
    /\ ReadLockFree(S)
    /\ \E p \in DOMAIN tracks :
         /\ thread[p]["video"].state = "none"
         /\ thread[p]["audio"].state = "running"
         /\ chan[p]["audio"] # << >>
         /\ \E o \in add_chunk(S, p, "video", <<2, 3>>) : o.result = "Ok"

ActiveTags == {"Recording", "Paused"}

\* C10: the started_at of the status is set when Idle becomes Recording and
\* is the same in every later Recording or Paused status: no step between
\* two such statuses changes it, and such a status is entered only from Idle,
\* as Recording.
C10_StartedAtFixed ==
    [][ /\ (status.tag \in ActiveTags /\ status'.tag \in ActiveTags)
           => status'.started_at = status.started_at
        /\ (status.tag \notin ActiveTags /\ status'.tag \in ActiveTags)
           => (status.tag = "Idle" /\ status'.tag = "Recording") ]_vars

\* a recording paused later than it started is about to be resumed
C10_Witness ==
    /\ WriteLockFree(S)
    /\ status.tag = "Paused"
    /\ status.paused_at > status.started_at
    /\ \E o \in resume_recording(S) :
           o.result = "Ok" /\ o.state.status = Recording(status.started_at)

\* C11: in the metadata stop_recording returns, duration_seconds is stopped_at
\* minus the started_at of that metadata, in whole seconds and floored at
\* zero, whatever pauses and resumes came between.
C11_DurationFromMetadata ==
    \A o \in StopReturns :
        o.result = "Ok"
        => LET meta == Unwrap(o.value)
               elapsed == Unwrap(meta.stopped_at) - meta.started_at IN
           meta.duration_seconds =
               IF elapsed < 0 THEN 0 ELSE elapsed \div TicksPerSecond

\* C12: a call that fails its lifecycle precondition (start_recording when the
\* status is not Idle; add_participant or stop_recording in Idle or Stopped;
\* pause_recording when not Recording; resume_recording when not Paused) or
\* fails in the session setup (IoError of start_recording or add_participant)
\* leaves status, config, storage, tracks, metadata and recording_id as they
\* were.
C12_FailedCallKeepsSession ==
    WriteLockFree(S)
    => /\ \A r \in RoomIds, d \in OutputDirs :
            \A o \in start_recording(S, r, d) :
                (status.tag # "Idle" \/ o.result = "IoError")
                => o.result # "Ok" /\ Session(o.state) = Session(S)
       /\ \A pn \in Participants, a \in BOOLEAN, v \in BOOLEAN :
            \A o \in add_participant(S, pn[1], pn[2], a, v) :
                (status.tag \in {"Idle", "Stopped"} \/ o.result = "IoError")
                => o.result # "Ok" /\ Session(o.state) = Session(S)
       /\ \A o \in pause_recording(S) :
            status.tag # "Recording"
            => o.result # "Ok" /\ Session(o.state) = Session(S)
       /\ \A o \in resume_recording(S) :
            status.tag # "Paused"
            => o.result # "Ok" /\ Session(o.state) = Session(S)
       /\ \A o \in stop_recording_call(S) :
            status.tag \in {"Idle", "Stopped"}
            => o.result # "Ok" /\ Session(o.state) = Session(S)

\* a paused recording with a track: a second participant's video file cannot
\* be created after its audio file was, and a pause is rejected
C12_Witness ==
    /\ WriteLockFree(S)
    /\ status.tag = "Paused"
    /\ DOMAIN tracks # {}
    /\ \E pn \in Participants :
         \E o \in add_participant(S, pn[1], pn[2], TRUE, TRUE) :
            /\ o.result = "IoError"
            /\ o.state.files # files
            /\ Session(o.state) = Session(S)
    /\ \E o \in pause_recording(S) : o.result = "NoActiveRecording"

\* a thread of participant p has panicked in state s
StopFailedFor(s, p) == \E k \in Kinds : s.thread[p][k].state = "panicked"

\* the path a worker of participant p returned in state s, if there was one
ResolvedFile(s, p, k) ==
    IF s.thread[p][k].state = "done" THEN Some(s.thread[p][k].path) ELSE None

\* C13: a panicked worker does not keep stop_recording from completing.  A
\* stop_recording that waits in the join of a panicked thread goes on; it
\* never returns TrackError; and when it returns Ok the status is Stopped,
\* metadata.json is written, and every participant none of whose threads
\* panicked has its workers ended with their queues consumed and its entry
\* merged: the paths its workers returned and left_at = stopped_at.
C13_StopSurvivesPanic ==
    /\ \A k \in Kinds :
         (/\ IsSome(stopping)
          /\ Unwrap(stopping).pc = (IF k = "audio" THEN "join_audio" ELSE "join_video")
          /\ thread[Unwrap(Unwrap(stopping).track).participant_id][k].state = "panicked")
         => stop_recording_resume(S) # {}
    /\ \A o \in StopReturns :
         /\ o.result # "TrackError"
         /\ o.result = "Ok"
            => LET meta == Unwrap(o.value) IN
               /\ o.state.status = Stopped
               /\ PathJoin(meta.output_directory, MetadataFileName) \in DOMAIN o.state.files
               /\ \A p \in DOMAIN meta.participants :
                    ~StopFailedFor(o.state, p)
                    => /\ meta.participants[p].left_at = meta.stopped_at
                       /\ \A k \in Kinds :
                            /\ o.state.thread[p][k].state \in {"done", "none"}
                            /\ o.state.chan[p][k] = << >>
                            /\ FileOf(meta.participants[p], k) = ResolvedFile(o.state, p, k)

\* stop_recording returns Ok for a session of two participants, one with a
\* panicked worker and unmerged, the other merged with its file
C13_Witness ==
    \E o \in StopReturns :
        /\ o.result = "Ok"
        /\ \E p, q \in DOMAIN Unwrap(o.value).participants :
             /\ StopFailedFor(o.state, p)
             /\ Unwrap(o.value).participants[p].left_at = None
             /\ ~StopFailedFor(o.state, q)
             /\ IsSome(Unwrap(o.value).participants[q].audio_file)
             /\ Unwrap(o.value).participants[q].left_at = Unwrap(o.value).stopped_at

\* the step in which the worker of pipeline (p, k) takes a chunk and fails to
\* write it
WriteFailedStep(p, k) ==
    /\ chan[p][k] # << >>
    /\ chan'[p][k] = Tail(chan[p][k])
    /\ Len(stats'[p].errors) = Len(stats[p].errors) + 1

\* what a failed write does: one message is appended to the errors, the bytes
\* written, the files and the calls in progress stay as they are, the worker
\* keeps running
FailedWriteEffect(p, k) ==
    /\ stats'[p] = [stats[p] EXCEPT !.errors =
           Append(@, IF k = "audio" THEN "Audio write error" ELSE "Video write error")]
    /\ files' = files
    /\ ingests' = ingests
    /\ thread'[p][k] = thread[p][k]
    /\ thread'[p][k].state = "running"

\* an ingest call past its send returns Ok, and a running worker with a
\* message in its queue can take it
IngestAndWorkerGoOn ==
    /\ \A call \in ingests :
         call.pc = "count" => \A o \in add_chunk_count(S, call) : o.result = "Ok"
    /\ \A p \in ParticipantIds, k \in Kinds :
         (thread[p][k].state = "running" /\ chan[p][k] # << >>)
         => recording_loop([S EXCEPT !.chan[p][k] = RestMessages(@)], p, k,
                           NextMessage(chan[p][k])) # {}

\* the call that sent the chunk the worker of (p, k) takes in this step is
\* still in progress: a call for that pipeline with those bytes is past its
\* send and no other message with those bytes is queued
SenderStillInCall(p, k) ==
    \E call \in ingests :
        /\ call.participant_id = p /\ call.kind = k /\ call.pc = "count"
        /\ call.chunk = Head(chan[p][k]).bytes
        /\ \A i \in 1..Len(chan'[p][k]) :
             chan'[p][k][i].type = "Chunk" => chan'[p][k][i].bytes # call.chunk

\* C14 as stated: a failed write appends one error, adds nothing to the bytes
\* written, leaves the worker running, is not reported to the caller, and
\* the ingest call of the chunk has returned before the write fails.
C14_FailedWriteAfterReturn ==
    [][ /\ IngestAndWorkerGoOn
        /\ \A p \in ParticipantIds, k \in Kinds :
             WriteFailedStep(p, k)
             => FailedWriteEffect(p, k) /\ ~SenderStillInCall(p, k) ]_vars

\* C14, amended: a failed write appends one error, adds nothing to the bytes
\* written, leaves the worker running with the rest of its queue, and is not
\* reported to the caller: the ingest call of the chunk returns Ok, before or
\* after the write fails.
C14_FailedWriteIsLocal ==
    []IngestAndWorkerGoOn
    /\ [][ \A p \in ParticipantIds, k \in Kinds :
             WriteFailedStep(p, k) => FailedWriteEffect(p, k) ]_vars

\* the write of the first chunk failed and the second chunk was written
C14_Witness ==
    \E p \in DOMAIN tracks :
        /\ enqueued[p]["audio"] = << <<1>>, <<2, 3>> >>
        /\ stats[p].errors = << "Audio write error" >>
        /\ stats[p].audio_chunks_received = 2
        /\ stats[p].audio_bytes_written = 2
        /\ files[thread[p]["audio"].path] = <<2, 3>>
        /\ thread[p]["audio"].state = "running"

\* every point stop_recording passes from outcome o on: o, and what follows
\* each step of the call until it returns or waits
RECURSIVE StopTrace(_)
StopTrace(o) ==
    {o} \cup (IF o.result # "Pending" THEN {}
              ELSE UNION { StopTrace(n) : n \in stop_step(o.state) })

\* the states a stop_recording that can run in the current state passes
\* before it returns
StopProgress ==
    { o.state : o \in { x \in (IF IsSome(stopping) THEN StopTrace(Outcome("Pending", None, S))
                              ELSE IF WriteLockFree(S)
                                   THEN UNION { StopTrace(b) : b \in stop_recording(S) }
                                   ELSE {}) : x.result = "Pending" } }

ReceivedOf(st, k) ==
    IF k = "audio" THEN st.audio_chunks_received ELSE st.video_chunks_received
BytesWrittenOf(st, k) ==
    IF k = "audio" THEN st.audio_bytes_written ELSE st.video_bytes_written
\* the number of write errors of kind k in an error list
ErrorsOf(errors, k) ==
    Cardinality({ i \in DOMAIN errors :
        errors[i] = (IF k = "audio" THEN "Audio write error" ELSE "Video write error") })

RECURSIVE SumWritten(_)
\* the sum of the lengths of the chunks whose write succeeded
SumWritten(pr) ==
    IF pr = << >> THEN 0
    ELSE (IF Head(pr).written THEN Len(Head(pr).bytes) ELSE 0) + SumWritten(Tail(pr))
NumWritten(pr) == Cardinality({ i \in DOMAIN pr : pr[i].written })
NumFailed(pr) == Cardinality({ i \in DOMAIN pr : ~pr[i].written })

\* the stats snapshot in result r, taken in state s, counts what happened on
\* the pipelines of its participant
SnapshotCounts(r, s) ==
    \A k \in Kinds :
        LET p == r.participant_id
            pr == s.processed[p][k] IN
        /\ ReceivedOf(r.stats, k) = Len(s.enqueued[p][k])
        /\ BytesWrittenOf(r.stats, k) = SumWritten(pr)
        /\ ErrorsOf(r.stats.errors, k) = NumFailed(pr)
        /\ ReceivedOf(r.stats, k) = NumWritten(pr) + NumFailed(pr)

AllSnapshotsCount ==
    \A s \in StopProgress : \A r \in Unwrap(s.stopping).results : SnapshotCounts(r, s)

\* an ingest call on a pipeline of its kind returns Ok only from the update
\* of the stats, which adds one to the received counter of the kind
SentCallsCounted ==
    \A call \in ingests :
        call.pc = "count"
        => \A o \in add_chunk_count(S, call) :
               /\ o.result = "Ok"
               /\ ReceivedOf(o.state.stats[call.participant_id], call.kind)
                      = ReceivedOf(stats[call.participant_id], call.kind) + 1

\* C15 as stated: in every stats snapshot a track returns from stop, for each
\* kind received is the number of ingest calls of the kind that returned Ok
\* (every call that returns Ok has added one to the counter), bytes written is
\* the sum of the lengths of the chunks written, and received is the number
\* of chunks written plus the number of write errors.
C15_ReceivedCountsEveryOk ==
    /\ AllSnapshotsCount
    /\ SentCallsCounted
    /\ ReadLockFree(S)
       => \A p \in DOMAIN tracks, k \in Kinds, c \in Chunks :
            \A o \in add_chunk(S, p, k, c) :
                o.result = "Ok"
                => ReceivedOf(o.state.stats[p], k) = ReceivedOf(stats[p], k) + 1

\* C15, amended: as stated for each kind the participant has a pipeline for;
\* an ingest call of a kind the participant has no pipeline for returns Ok
\* and is not counted.
C15_ReceivedCountsEverySent ==
    /\ AllSnapshotsCount
    /\ SentCallsCounted
    /\ ReadLockFree(S)
       => \A p \in DOMAIN tracks, k \in Kinds, c \in Chunks :
            \A o \in add_chunk(S, p, k, c) :
                o.result = "Ok"
                => /\ thread[p][k].state = "none"
                   /\ o.state.stats = stats

\* stop_recording takes the snapshot of a track that received two audio
\* chunks, wrote the second (2 bytes) and failed to write the first
C15_Witness ==
    \E s \in StopProgress : \E r \in Unwrap(s.stopping).results :
        /\ r.stats.audio_chunks_received = 2
        /\ r.stats.audio_bytes_written = 2
        /\ r.stats.errors = << "Audio write error" >>
        /\ s.processed[r.participant_id]["audio"]
               = << Processed(<<1>>, FALSE), Processed(<<2, 3>>, TRUE) >>

\* no channel holds more than CHANNEL_BUFFER_SIZE messages; a call whose
\* channel is full has no outcome at its send: it neither fails nor returns;
\* a call whose channel has room and whose worker runs enqueues its chunk
BoundedAndBlocking ==
    /\ \A p \in ParticipantIds, k \in Kinds : Len(chan[p][k]) <= CHANNEL_BUFFER_SIZE
    /\ \A call \in ingests :
         LET p == call.participant_id
             k == call.kind IN
         (call.pc = "send" /\ thread[p][k].state = "running")
         => IF Len(chan[p][k]) = CHANNEL_BUFFER_SIZE
            THEN add_chunk_send(S, call) = {}
            ELSE \A o \in add_chunk_send(S, call) :
                    /\ o.result = "Pending"
                    /\ o.state.chan[p][k] = Append(chan[p][k], Chunk(call.chunk))
    /\ ReadLockFree(S)
       => \A p \in DOMAIN tracks, k \in Kinds, c \in Chunks :
            (thread[p][k].state = "running" /\ Len(chan[p][k]) = CHANNEL_BUFFER_SIZE)
            => \A o \in add_chunk(S, p, k, c) :
                   /\ o.result = "Pending"
                   /\ IngestCallAt(p, k, c, "send") \in o.state.ingests
                   /\ o.state.chan = chan

\* a call that waits in its send stays in progress with its chunk until it
\* has enqueued the chunk behind the messages of the queue, unless its worker
\* is gone
WaitingCallKeepsChunk ==
    \A call \in ingests :
        LET p == call.participant_id
            k == call.kind IN
        (call.pc = "send" /\ call \notin ingests' /\ thread[p][k].state = "running")
        => /\ Len(chan[p][k]) < CHANNEL_BUFFER_SIZE
           /\ chan'[p][k] = Append(chan[p][k], Chunk(call.chunk))
           /\ enqueued'[p][k] = Append(enqueued[p][k], call.chunk)
           /\ [call EXCEPT !.pc = "count"] \in ingests'

\* C16: a queue never holds more than its capacity; an ingest on a full queue
\* waits, without failing and without dropping its chunk, until the worker
\* has taken a message, and then enqueues the chunk.
C16_BoundedQueueBlocks ==
    []BoundedAndBlocking /\ [][WaitingCallKeepsChunk]_vars

\* an ingest call waits in its send on a full queue of a running worker
C16_Witness ==
    \E call \in ingests :
        /\ call.pc = "send"
        /\ thread[call.participant_id][call.kind].state = "running"
        /\ Len(chan[call.participant_id][call.kind]) = CHANNEL_BUFFER_SIZE
        /\ chan[call.participant_id][call.kind][1].type = "Chunk"

\* the pipelines with a worker that owns a writer
OpenPipelines ==
    { pk \in ParticipantIds \X Kinds : thread[pk[1]][pk[2]].state = "running" }

\* C17: every (participant, kind) pipeline writes to its own file: no two
\* pipelines of the session have writers on the same path.
C17_OwnFilePerPipeline ==
    \A a \in OpenPipelines, b \in OpenPipelines :
        a # b => thread[a[1]][a[2]].path # thread[b[1]][b[2]].path

\* C18: the document a successful stop_recording writes at
\* {output_dir}/metadata.json, parsed back, is the metadata the call returns.
C18_PersistedEqualsReturned ==
    \A o \in StopReturns :
        o.result = "Ok"
        => LET meta == Unwrap(o.value)
               path == PathJoin(meta.output_directory, MetadataFileName) IN
           /\ path \in DOMAIN o.state.files
           /\ FromJson(o.state.files[path][1]) = meta

\* stop_recording returns Ok with a participant whose audio file and leave
\* time are set, some time after the start
C18_Witness ==
    \E o \in StopReturns :
        /\ o.result = "Ok"
        /\ Unwrap(Unwrap(o.value).stopped_at) > Unwrap(o.value).started_at
        /\ \E p \in DOMAIN Unwrap(o.value).participants :
             /\ IsSome(Unwrap(o.value).participants[p].audio_file)
             /\ Unwrap(o.value).participants[p].video_file = None
             /\ IsSome(Unwrap(o.value).participants[p].left_at)

\* the characters sanitize_filename keeps: [A-Za-z0-9_-]
KeptChars == Lower \cup Upper \cup Digits \cup {"-", "_"}

\* C19: sanitize_filename returns for every name: the result has as many
\* characters as the name, a character in [A-Za-z0-9_-] stays at its
\* position, any other character becomes '_', so the result holds only
\* characters in [A-Za-z0-9_-]; calling it again on the same name gives the
\* same result.
C19_SanitizeFilename ==
    IsSome(sanitize_ret)
    => LET out == Unwrap(sanitize_ret) IN
       /\ Len(out) = Len(sanitize_arg)
       /\ \A i \in 1..Len(sanitize_arg) :
            /\ sanitize_arg[i] \in KeptChars => out[i] = sanitize_arg[i]
            /\ sanitize_arg[i] \notin KeptChars => out[i] = "_"
       /\ \A i \in 1..Len(out) : out[i] \in KeptChars
       /\ sanitize_filename(sanitize_arg) = out

\* sanitize_filename has returned for a name of full length that holds a
\* kept character, a dot and a character outside ASCII
C19_Witness ==
    /\ IsSome(sanitize_ret)
    /\ Len(sanitize_arg) = MaxNameLen
    /\ \E i, j, l \in 1..Len(sanitize_arg) :
         /\ sanitize_arg[i] = "Z"
         /\ sanitize_arg[j] = "."
         /\ sanitize_arg[l] = "U+00E9"
    /\ Unwrap(sanitize_ret) # sanitize_arg

\* the calls of the five lifecycle handlers in the current state, each as its
\* set of outcomes
LifecycleCalls ==
    { start_recording(S, r, d) : r \in RoomIds, d \in OutputDirs }
    \cup { add_participant(S, pn[1], pn[2], a, v) :
             pn \in Participants, a \in BOOLEAN, v \in BOOLEAN }
    \cup { pause_recording(S), resume_recording(S), stop_recording_call(S) }

\* in Stopped, every call of start_recording, add_participant,
\* pause_recording, resume_recording and stop_recording returns an error and
\* leaves the status Stopped
StoppedRejectsAll ==
    (status.tag = "Stopped" /\ WriteLockFree(S))
    => \A outcomes \in LifecycleCalls :
          /\ outcomes # {}
          /\ \A o \in outcomes :
                /\ o.result \notin {"Ok", "Pending"}
                /\ o.state.status = Stopped

\* a step never takes the status back to Idle, and never out of Stopped
NoWayBack ==
    /\ status.tag # "Idle" => status'.tag # "Idle"
    /\ status.tag = "Stopped" => status'.tag = "Stopped"

\* C20: Stopped is absorbing and Idle is never re-entered: once the status
\* has left Idle no step returns it to Idle, and once it is Stopped every
\* later start_recording, add_participant, pause_recording, resume_recording
\* and stop_recording fails and the status stays Stopped.
C20_StoppedIsAbsorbing == []StoppedRejectsAll /\ [][NoWayBack]_vars

\* a recording was stopped, its metadata written, and the calls made after it
\* are rejected: start_recording with AlreadyRecording, the others with
\* NoActiveRecording
C20_Witness ==
    /\ status.tag = "Stopped"
    /\ WriteLockFree(S)
    /\ \E d \in DOMAIN files : d[Len(d)] = MetadataFileName
    /\ \E r \in RoomIds, d \in OutputDirs :
          \E o \in start_recording(S, r, d) : o.result = "AlreadyRecording"
    /\ \E o \in stop_recording_call(S) : o.result = "NoActiveRecording"
    /\ \E o \in pause_recording(S) : o.result = "NoActiveRecording"
    /\ \E o \in resume_recording(S) : o.result = "NoActiveRecording"

\* the outcomes of every start_recording call in the current state
StartOutcomes ==
    UNION { start_recording(S, r, d) : r \in RoomIds, d \in OutputDirs }

\* C21 as stated: when the status is Stopped, start_recording is rejected and
\* the error it returns is not AlreadyRecording.
C21_StoppedStartOtherError ==
    (status.tag = "Stopped" /\ WriteLockFree(S))
    => \A o \in StartOutcomes : o.result \notin {"Ok", "AlreadyRecording"}

\* C21: when the status is Stopped, start_recording is rejected, the error it
\* returns is AlreadyRecording, and the call changes nothing.
C21_StoppedStartAlreadyRecording ==
    (status.tag = "Stopped" /\ WriteLockFree(S))
    => /\ StartOutcomes # {}
       /\ \A o \in StartOutcomes :
            /\ o.result = "AlreadyRecording"
            /\ o.value = None
            /\ o.state = S

\* a recording with a participant was stopped and start_recording is called
C21_Witness ==
    /\ status.tag = "Stopped"
    /\ WriteLockFree(S)
    /\ IsSome(recording_id)
    /\ \E p \in ParticipantIds : thread[p]["audio"].state = "done"
    /\ \E o \in StartOutcomes : o.result = "AlreadyRecording"

\* C22: the received counter of a kind is incremented at enqueue, before the
\* worker has processed the chunk: in every reachable state and for every
\* pipeline, the number of chunks the worker has processed (written, or
\* recorded as a write error) is at most the received counter of that kind.
C22_ProcessedAtMostReceived ==
    \A p \in ParticipantIds, k \in Kinds :
        Len(processed[p][k]) <= ReceivedOf(stats[p], k)

\* the ingest calls that wait in their send on a full channel
BlockedIngests ==
    { call \in ingests :
        /\ call.pc = "send"
        /\ ChannelFull(chan[call.participant_id][call.kind]) }

\* C23: an ingest call holds the shared lock on the state only while it looks
\* up the track; a call that waits in its send on a full channel holds no lock
\* on the state, so with such a call alone a caller can take the exclusive
\* lock.
C23_BlockedIngestHoldsNoLock ==
    \A call \in BlockedIngests :
        WriteLockFree([S EXCEPT !.ingests = {call}, !.stopping = None])

\* a stop_recording call is in progress: it has passed its status check and
\* has not returned
StopInProgress == IsSome(stopping)

\* while a stop_recording call is in progress no ingest call is in progress
NoCallDuringStop == StopInProgress => ingests = {}

\* a step taken while a stop_recording call is in progress is a step of that
\* call or of a worker thread
OnlyStopAndWorkers ==
    StopInProgress
    => \/ StopResume
       \/ \E p \in ParticipantIds, k \in Kinds : WorkerStep(p, k)
       \/ \E p \in ParticipantIds, k \in Kinds : WorkerPanic(p, k)

\* C24: stop_recording holds the write lock from its status check, through
\* the joins of every track, until it returns: while it is in progress no
\* other call (start_recording, add_participant, pause_recording,
\* resume_recording, an ingest call, another stop_recording) is in progress
\* or takes a step.
C24_StopExcludesOtherCalls == []NoCallDuringStop /\ [][OnlyStopAndWorkers]_vars

\* stop_recording waits in the join of an audio thread that has the Stop
\* message to take, with a second track still to stop
C24_Witness ==
    /\ StopInProgress
    /\ Unwrap(stopping).pc = "join_audio"
    /\ DOMAIN Unwrap(stopping).todo # {}
    /\ status.tag \in ActiveTags
    /\ \E p \in ParticipantIds :
         /\ thread[p]["audio"].state = "running"
         /\ chan[p]["audio"] = << StopMsg >>

\* the chunks a worker has taken, in order
ProcessedChunks(pr) == [i \in DOMAIN pr |-> pr[i].bytes]

\* the step in which the worker of pipeline (p, k) ends: it takes the Stop
\* message, which is the last of its queue, its track has been taken out of
\* the state for the stop, every chunk enqueued has been processed in order,
\* and the step writes nothing
WorkerEndsAtStop(p, k) ==
    (thread[p][k].state = "running" /\ thread'[p][k].state = "done")
    => /\ chan[p][k] = << StopMsg >>
       /\ chan'[p][k] = << >>
       /\ p \notin DOMAIN tracks
       /\ ProcessedChunks(processed[p][k]) = enqueued[p][k]
       /\ processed' = processed
       /\ files' = files

\* a worker that has ended takes and writes nothing more (until a later
\* add_participant makes a new track for the participant)
EndedWorkerIsQuiet(p, k) ==
    (thread[p][k].state = "done" /\ p \notin DOMAIN tracks')
    => /\ thread'[p][k] = thread[p][k]
       /\ processed'[p][k] = processed[p][k]
       /\ enqueued'[p][k] = enqueued[p][k]
       /\ chan'[p][k] = << >>

\* a worker runs as long as its track is in the state with its sender open,
\* and one that has ended has processed all that was enqueued
RunsWhileOpen ==
    \A p \in ParticipantIds, k \in Kinds :
        /\ (p \in DOMAIN tracks /\ HasSender(tracks[p], k))
           => thread[p][k].state \in {"running", "panicked"}
        /\ thread[p][k].state = "done"
           => /\ ProcessedChunks(processed[p][k]) = enqueued[p][k]
              /\ chan[p][k] = << >>

\* C25: a worker ends only when it takes the Stop message, never while its
\* track is in the session with its sender open; when it ends, every chunk
\* enqueued ahead of Stop has been processed (written or recorded as a write
\* error), and no chunk is taken or written after Stop.
C25_WorkerEndsOnlyAtStop ==
    /\ []RunsWhileOpen
    /\ [][\A p \in ParticipantIds, k \in Kinds :
             WorkerEndsAtStop(p, k) /\ EndedWorkerIsQuiet(p, k)]_vars

\* a worker has ended after it processed two chunks, one of them with a write
\* error, while the status was still Recording or Paused
C25_Witness ==
    \E p \in ParticipantIds :
        /\ thread[p]["audio"].state = "done"
        /\ Len(processed[p]["audio"]) = 2
        /\ \E i \in 1..2 : ~processed[p]["audio"][i].written
        /\ StopInProgress
        /\ status.tag \in ActiveTags

\* a track in the map has, for each kind, a worker with a writer exactly when
\* the kind was requested
WorkersAsRequested ==
    \A p \in DOMAIN tracks, k \in Kinds :
        /\ HasSender(tracks[p], k) <=> HasThread(tracks[p], k)
        /\ HasSender(tracks[p], k) => thread[p][k].state \in {"running", "panicked"}
        /\ ~HasSender(tracks[p], k) => thread[p][k].state = "none"

\* a step makes a track for participant p
TrackCreated(p) == p \notin DOMAIN tracks /\ p \in DOMAIN tracks'

\* a writer is opened only when add_participant makes the track: the file is
\* created empty and the writer is at its start; no worker of an earlier track
\* of the participant still runs (unless a thread of that track had panicked,
\* which leaves the other thread without a join)
OpenedAtAdd(p, k) ==
    /\ (thread[p][k].state # "running" /\ thread'[p][k].state = "running")
       => /\ TrackCreated(p)
          /\ HasSender(tracks'[p], k)
          /\ thread'[p][k].pos = 0
          /\ thread'[p][k].path \in DOMAIN files'
          /\ files'[thread'[p][k].path] = << >>
    /\ TrackCreated(p)
       => \/ thread[p][k].state # "running"
          \/ \E j \in Kinds : thread[p][j].state = "panicked"

\* a track in the map is never replaced and its writer never opened again
NeverReopened(p, k) ==
    /\ (p \in DOMAIN tracks /\ p \in DOMAIN tracks') => tracks'[p] = tracks[p]
    /\ (thread[p][k].state = "running" /\ ~TrackCreated(p))
       => /\ thread'[p][k].state \in {"running", "done", "panicked"}
          /\ thread'[p][k].state # "panicked" => thread'[p][k].path = thread[p][k].path

\* a writer is finalized by its worker, once: the thread ends from running,
\* and an ended thread stays as it is
FinalizedOnce(p, k) ==
    /\ thread'[p][k].state = "done"
       => thread[p][k].state = "running" \/ thread'[p][k] = thread[p][k]
    /\ (thread[p][k].state = "done" /\ ~TrackCreated(p))
       => thread'[p][k] = thread[p][k]

\* when stop_recording returns Ok, every track whose stop succeeded has the
\* worker of each requested kind ended, with the file the metadata names
FinalizedAtStop ==
    \A o \in StopReturns :
        o.result = "Ok"
        => \A p \in DOMAIN Unwrap(o.value).participants, k \in Kinds :
              LET m == Unwrap(o.value).participants[p] IN
              IsSome(FileOf(m, k))
              => /\ o.state.thread[p][k].state = "done"
                 /\ o.state.thread[p][k].path = Unwrap(FileOf(m, k))

\* C26: a participant id has at most one track in the map (a second
\* add_participant with the id leaves the track as it is), and for each
\* requested kind the track's writer is opened once, when add_participant
\* makes the track, and finalized once, by its worker when it ends at stop.
C26_OneTrackOpenedAndFinalizedOnce ==
    /\ [](WorkersAsRequested /\ FinalizedAtStop)
    /\ [][\A p \in ParticipantIds, k \in Kinds :
             OpenedAtAdd(p, k) /\ NeverReopened(p, k) /\ FinalizedOnce(p, k)]_vars

\* stop_recording returns Ok for a participant added with both kinds, whose
\* two workers have ended after a chunk was enqueued
C26_Witness ==
    \E o \in StopReturns :
        /\ o.result = "Ok"
        /\ \E p \in DOMAIN Unwrap(o.value).participants :
             /\ \A k \in Kinds : o.state.thread[p][k].state = "done"
             /\ \A k \in Kinds : IsSome(FileOf(Unwrap(o.value).participants[p], k))
             /\ Len(o.state.enqueued[p]["audio"]) > 0

\* an entry of metadata.participants with no file and no leave time
EntryOpen(m) == m.audio_file = None /\ m.video_file = None /\ m.left_at = None

\* while the status is Recording or Paused no entry of the metadata has a
\* file or a leave time
EntriesOpenWhileActive ==
    (status.tag \in ActiveTags /\ IsSome(metadata))
    => \A p \in DOMAIN Unwrap(metadata).participants :
          EntryOpen(Unwrap(metadata).participants[p])

\* in the metadata a stop_recording returns, a participant whose track
\* stopped without a panicked thread has the file of a kind set exactly when
\* the kind was requested, and left_at is stopped_at
EntriesMergedAtStop ==
    \A o \in StopReturns :
        o.result = "Ok"
        => LET meta == Unwrap(o.value) IN
           \A p \in DOMAIN meta.participants :
              (\A k \in Kinds : o.state.thread[p][k].state \in {"none", "done"})
              => /\ \A k \in Kinds :
                      IsSome(FileOf(meta.participants[p], k))
                      <=> o.state.thread[p][k].state = "done"
                 /\ IsSome(meta.stopped_at)
                 /\ meta.participants[p].left_at = meta.stopped_at

\* C27: while the status is Recording or Paused every participant entry of
\* the metadata has audio_file, video_file and left_at unset; in the metadata
\* stop_recording returns, every participant whose track stopped successfully
\* has audio_file set exactly when audio was requested, video_file set
\* exactly when video was requested, and left_at equal to stopped_at.
C27_FilesAndLeftAtSetAtStop == EntriesOpenWhileActive /\ EntriesMergedAtStop

\* stop_recording returns Ok for two participants, one added with audio only
\* and one with video only, some time after they joined
C27_Witness ==
    \E o \in StopReturns :
        /\ o.result = "Ok"
        /\ \E p, q \in DOMAIN Unwrap(o.value).participants :
             LET mp == Unwrap(o.value).participants[p]
                 mq == Unwrap(o.value).participants[q] IN
             /\ IsSome(mp.audio_file) /\ mp.video_file = None
             /\ mq.audio_file = None /\ IsSome(mq.video_file)
             /\ Unwrap(mp.left_at) > mp.joined_at

\* stop_recording is in the join of the audio thread of a track, and that
\* thread has panicked
AudioJoinFails ==
    /\ StopInProgress
    /\ Unwrap(stopping).pc = "join_audio"
    /\ JoinFailed(S, Unwrap(Unwrap(stopping).track), "audio")

\* TrackRecorder::stop then returns at once: the track is dropped, no result
\* is pushed, and the video thread is not joined
AbortsAtAudioJoin ==
    AudioJoinFails
    => /\ stop_step(S) # {}
       /\ \A n \in stop_step(S) :
            LET st == Unwrap(n.state.stopping) IN
            /\ st.pc = "next"
            /\ st.track = None
            /\ st.results = Unwrap(stopping).results
            /\ n.state.thread = thread

\* in the metadata a stop_recording returns, a participant whose audio thread
\* panicked has neither file nor a leave time, whatever its video thread did
NeitherFileAfterAudioPanic ==
    \A o \in StopReturns :
        o.result = "Ok"
        => \A p \in DOMAIN Unwrap(o.value).participants :
              o.state.thread[p]["audio"].state = "panicked"
              => EntryOpen(Unwrap(o.value).participants[p])

\* C28: TrackRecorder::stop joins the audio thread before the video thread
\* and returns on the first failure: when the audio thread has panicked it
\* returns TrackError without joining the video thread, the video path is not
\* collected, and the participant's entry in the metadata has neither file
\* even when the video worker ended well.
C28_AudioPanicDropsVideoFile == AbortsAtAudioJoin /\ NeitherFileAfterAudioPanic

\* stop_recording returns Ok for a participant whose audio thread panicked and
\* whose video worker wrote a chunk and ended; the entry names no file
C28_Witness ==
    \E o \in StopReturns :
        /\ o.result = "Ok"
        /\ \E p \in DOMAIN Unwrap(o.value).participants :
             /\ o.state.thread[p]["audio"].state = "panicked"
             /\ o.state.thread[p]["video"].state = "done"
             /\ o.state.files[o.state.thread[p]["video"].path] # << >>
             /\ Unwrap(o.value).participants[p].video_file = None

\* the call add_chunk(p, k, c) is in progress in state s with its chunk: it
\* waits in its send, or it has enqueued the chunk as the last of the queue
HoldsChunk(s, p, k, c) ==
    \/ IngestCallAt(p, k, c, "send") \in s.ingests
    \/ /\ IngestCallAt(p, k, c, "count") \in s.ingests
       /\ s.enqueued[p][k] # << >>
       /\ s.enqueued[p][k][Len(s.enqueued[p][k])] = c

IngestOutcomes ==
    ReadLockFree(S)
    => \A p \in ParticipantIds, k \in Kinds, c \in Chunks :
          \A o \in add_chunk(S, p, k, c) :
             IF p \notin DOMAIN tracks
             THEN o.result = "ParticipantNotFound" /\ o.state = S
             ELSE IF thread[p][k].state = "none"
             THEN o.result = "Ok" /\ o.state = S
             ELSE IF thread[p][k].state = "running"
             THEN o.result = "Pending" /\ HoldsChunk(o.state, p, k, c)
             ELSE o.result = "TrackError" /\ o.state.enqueued = enqueued

\* a stop_recording in progress has taken every track out of the state and no
\* ingest call is in progress; after the stop the map is still empty
TracksTakenAtStop ==
    (StopInProgress \/ status.tag = "Stopped") => (tracks = EmptyMap /\ ingests = {})

\* the Stop message is the last of its queue, and a worker that has ended has
\* processed every chunk that was enqueued
StopIsLast ==
    \A p \in ParticipantIds, k \in Kinds :
        /\ \A i \in 1..(Len(chan[p][k]) - 1) : chan[p][k][i].type = "Chunk"
        /\ thread[p][k].state = "done"
           => ProcessedChunks(processed[p][k]) = enqueued[p][k]

\* nothing is enqueued on a pipeline once Stop is in its queue or its worker
\* has ended; every call that has enqueued its chunk returns Ok
NothingBehindStop ==
    /\ \A p \in ParticipantIds, k \in Kinds :
         (/\ \/ thread[p][k].state = "done"
             \/ \E i \in DOMAIN chan[p][k] : chan[p][k][i].type = "Stop"
          /\ ~TrackCreated(p))
         => enqueued'[p][k] = enqueued[p][k]
    /\ \A call \in ingests :
         call.pc = "count"
         => \A o \in add_chunk_count(S, call) :
               o.result = "Ok" /\ o.state.enqueued = enqueued

C30_StatusMatchesSession ==
    /\ status.tag \in ActiveTags
       => /\ IsSome(config)
          /\ IsSome(storage)
          /\ IsSome(metadata)
          /\ IsSome(recording_id)
    /\ status.tag = "Idle"
       => /\ tracks = EmptyMap
          /\ config = None
          /\ storage = None
          /\ metadata = None
          /\ recording_id = None

\* C31: an active session can always be stopped: in every reachable state
\* with status Recording or Paused, also after an earlier stop_recording
\* returned an error, a stop_recording whose metadata write succeeds returns
\* Ok with the metadata and leaves the status Stopped.
C31_ActiveCanBeStopped ==
    status.tag \in ActiveTags
    => \A o \in StopReturns :
          \/ o.result = "IoError"
          \/ /\ o.result = "Ok"
             /\ IsSome(o.value)
             /\ o.state.status = Stopped

WithStatus(s, st) == [s EXCEPT !.status = st]

\* the outcomes, each with the status st in its state
OutcomesWithStatus(outcomes, st) ==
    { [o EXCEPT !.state = WithStatus(o.state, st)] : o \in outcomes }

\* an ingest call, the send and the count of a call in progress, and an
\* iteration of a worker do in the paused state what they do in the state
\* that differs from it only by the status Recording
IngestAsWhileRecording ==
    status.tag = "Paused"
    => LET R == WithStatus(S, Recording(status.started_at)) IN
       /\ \A p \in ParticipantIds, k \in Kinds, c \in Chunks :
             add_chunk(S, p, k, c) = OutcomesWithStatus(add_chunk(R, p, k, c), status)
       /\ \A call \in ingests :
             /\ add_chunk_send(S, call)
                  = OutcomesWithStatus(add_chunk_send(R, call), status)
             /\ add_chunk_count(S, call)
                  = OutcomesWithStatus(add_chunk_count(R, call), status)
       /\ \A p \in ParticipantIds, k \in Kinds :
             (thread[p][k].state = "running" /\ chan[p][k] # << >>)
             => recording_loop(S, p, k, NextMessage(chan[p][k]))
                  = { WithStatus(t, status)
                      : t \in recording_loop(R, p, k, NextMessage(chan[p][k])) }

\* a chunk for a pipeline that takes it is accepted while paused: it is in
\* the queue when the call goes on, and the call then counts it
PausedIngestAccepted ==
    status.tag = "Paused"
    => \A p \in DOMAIN tracks, k \in Kinds, c \in Chunks :
         ( /\ HasSender(tracks[p], k) /\ ReceiverAlive(S, p, k)
           /\ ~ChannelFull(chan[p][k]) /\ ingests = {} /\ CanSpend(S, 1) )
         => /\ add_chunk(S, p, k, c) # {}
            /\ \A o \in add_chunk(S, p, k, c) :
                 /\ o.result = "Pending"
                 /\ o.state.chan[p][k] = Append(chan[p][k], Chunk(c))
                 /\ \E call \in o.state.ingests :
                      /\ call.pc = "count"
                      /\ \A n \in add_chunk_count(o.state, call) :
                           /\ n.result = "Ok"
                           /\ ReceivedOf(n.state.stats[p], k)
                                = ReceivedOf(stats[p], k) + 1

\* a step from Recording to Paused or back
PauseOrResumeStep ==
    /\ status.tag # status'.tag
    /\ { status.tag, status'.tag } = { "Recording", "Paused" }

\* pause and resume change the status and nothing else of the session
PauseTouchesOnlyStatus ==
    PauseOrResumeStep
    => /\ UNCHANGED << tracks, chan, thread, metadata, stats, files, dirs, config,
                       storage, recording_id, ingests, stopping, enqueued, processed >>
       /\ status'.started_at = status.started_at

\* C33: pausing does not gate ingestion.  While the status is Paused a chunk
\* is accepted, counted as received and written to the file of the track as
\* it is while the status is Recording, and pause and resume leave the
\* tracks, the queues, the workers and the metadata as they are.
C33_PauseDoesNotGateIngestion ==
    /\ [](IngestAsWhileRecording /\ PausedIngestAccepted)
    /\ [][PauseTouchesOnlyStatus]_vars

\* paused, and a chunk sent during the pause was written by the worker
\* before its call counts it
C33_Witness ==
    /\ status.tag = "Paused"
    /\ \E call \in ingests :
         /\ call.pc = "count"
         /\ processed[call.participant_id][call.kind]
              = << Processed(call.chunk, TRUE) >>
         /\ chan[call.participant_id][call.kind] = << >>
         /\ files[thread[call.participant_id][call.kind].path] = call.chunk

\* ------------------------------------------------------------------ C34
\* stop_recording has taken the tracks out of the session: a stop is in
\* progress, or has returned Ok, or has returned an error after it took the
\* tracks and the metadata
TakenByStop ==
    \/ StopInProgress
    \/ status.tag = "Stopped"
    \/ status.tag \in ActiveTags /\ metadata = None

\* every ingest call fails with ParticipantNotFound and changes nothing
IngestFailsAfterStop ==
    TakenByStop
    => \A p \in ParticipantIds, k \in Kinds, c \in Chunks :
         add_chunk(S, p, k, c) = { Outcome("ParticipantNotFound", None, S) }

\* the file of a worker that has finalized it stays as it is, and no chunk
\* is accepted for its pipeline
FinalizedFileIsClosed ==
    \A p \in ParticipantIds, k \in Kinds :
        thread[p][k].state = "done"
        => /\ files'[thread[p][k].path] = files[thread[p][k].path]
           /\ enqueued'[p][k] = enqueued[p][k]

\* C34: after stop_recording has taken the tracks out of the session every
\* ingest call fails with ParticipantNotFound, also for the ids added during
\* the session, and no chunk is accepted for or appended to the file of a
\* track after its worker finalized it.
C34_NoIngestAfterStop ==
    /\ []IngestFailsAfterStop
    /\ [][FinalizedFileIsClosed]_vars

\* ------------------------------------------------------------------ C35
\* the keys of metadata.participants
MetadataKeys(m) == IF IsSome(m) THEN DOMAIN Unwrap(m).participants ELSE {}

\* between two calls of an active session the ids with a track are the ids
\* with a metadata entry
PipelinesMatchMetadata ==
    (status.tag \in ActiveTags /\ ~StopInProgress)
    => DOMAIN tracks = MetadataKeys(metadata)

\* a step that adds a track adds that one track and one metadata entry of
\* its id with left_at unset, and leaves the other entries as they are
AddAddsTrackAndEntry ==
    \A p \in ParticipantIds :
        TrackCreated(p)
        => /\ DOMAIN tracks' = DOMAIN tracks \cup {p}
           /\ MetadataKeys(metadata') = MetadataKeys(metadata) \cup {p}
           /\ p \notin MetadataKeys(metadata)
           /\ Unwrap(metadata').participants[p].id = p
           /\ Unwrap(metadata').participants[p].left_at = None
           /\ \A q \in MetadataKeys(metadata) :
                Unwrap(metadata').participants[q] = Unwrap(metadata).participants[q]

\* a step of an active session that leaves it active changes the ids with
\* a track or with an entry only by adding a track
OnlyAddChangesEither ==
    ( /\ status.tag \in ActiveTags /\ status'.tag \in ActiveTags
      /\ ~StopInProgress'
      /\ \/ DOMAIN tracks' # DOMAIN tracks
         \/ MetadataKeys(metadata') # MetadataKeys(metadata) )
    => \E p \in ParticipantIds : TrackCreated(p)

\* C35: while the status is Recording or Paused the ids that have a
\* pipeline are the keys of metadata.participants: an add_participant that
\* succeeds for a new id adds one pipeline and one entry of that id with
\* left_at unset, and no other operation adds or removes either.
C35_PipelinesAreMetadataKeys ==
    /\ []PipelinesMatchMetadata
    /\ [][AddAddsTrackAndEntry /\ OnlyAddChangesEither]_vars

\* ------------------------------------------------------------------ C36
\* what the accessors return after a stop_recording that returns Ok: no
\* metadata, the id of the session that was stopped, which is the id in the
\* metadata the call returned, and the status Stopped
StoppedAccessors ==
    \A o \in StopReturns :
        o.result = "Ok"
        => /\ get_metadata(o.state) = None
           /\ IsSome(o.value)
           /\ IsSome(recording_id)
           /\ get_recording_id(o.state) = get_recording_id(S)
           /\ get_recording_id(o.state) = Some(Unwrap(o.value).id)
           /\ get_status(o.state) = Stopped

\* and what they return from then on
StoppedAccessorsStay ==
    /\ status.tag = "Stopped"
       => /\ get_metadata(S) = None
          /\ IsSome(get_recording_id(S))
          /\ get_status(S) = Stopped

\* the id of a stopped session is the one the accessor goes on to return
StoppedIdStays ==
    status'.tag = "Stopped"
    => /\ IsSome(recording_id)
       /\ get_recording_id(S)' = get_recording_id(S)

\* C36: after a stop_recording that returns Ok, get_metadata returns None
\* (the metadata was moved into the value the call returned), while
\* get_recording_id still returns the id of the stopped session and
\* get_status returns Stopped.  The accessors are functions of the state:
\* they read it under the read lock and there is no step of theirs.
C36_AccessorsAfterStop ==
    /\ [](StoppedAccessors /\ StoppedAccessorsStay)
    /\ [][StoppedIdStays]_vars

\* a recording with a participant was stopped: the accessors return no
\* metadata, the id of the session and Stopped
C36_Witness ==
    /\ get_status(S) = Stopped
    /\ get_metadata(S) = None
    /\ IsSome(get_recording_id(S))
    /\ \E r \in RoomIds : HasIdForm(Unwrap(get_recording_id(S)), r)
    /\ \E p \in ParticipantIds : thread[p]["audio"].state = "done"
    /\ \E d \in DOMAIN files :
         /\ d[Len(d)] = MetadataFileName
         /\ FromJson(files[d][1]).id = Unwrap(get_recording_id(S))
====
